---------------------------- MODULE Spec2Model ----------------------------
(***************************************************************************)
(* Model of shield_converter (src/src/shield_converter/converter.py):      *)
(* the binary tier decoders, the sensor demultiplexer, folder-name         *)
(* parsing, session-record generation and convert_run.                     *)
(*                                                                         *)
(* Conventions                                                             *)
(*   - a file's content is a sequence of bytes (0..255);                   *)
(*   - a Python str is a sequence of one-character strings;                *)
(*   - a 32-bit field (uint32, float32) is carried as the pair           *)
(*     <<high 16 bits, low 16 bits>> of its bit pattern, since the model   *)
(*     checker's integers stop at 2^31-1; the value is 65536*high + low.   *)
(*     The code never computes with a float, it only moves it;             *)
(*   - a Python dict is a sequence of <<key, value>> pairs in insertion    *)
(*     order; a pandas DataFrame is the sequence of its rows.              *)
(***************************************************************************)
EXTENDS Integers, Sequences, FiniteSets, TLC

VARIABLES
    \* ---- decoder / demultiplexer pipeline on one tier file (SpecDecode)
    tier,          \* which tier file is being written and decoded
    data,          \* the bytes of the tier file
    sent,          \* the records the device packed into it, in order
    tail,          \* number of bytes of an interrupted last record
    records,       \* what parse_<tier>_data returned
    sensor_dfs,    \* what split_by_sensor returned
    dpc,           \* "writing" | "closed" | "parsed" | "split"
    \* ---- parse_folder_name on one folder name (SpecFolder)
    folder_name,   \* the argument
    parsed,        \* the returned (unit_id, run_id)
    \* ---- convert_run on run directories (Spec, SpecBatch)
    input_dir,     \* run directory name -> the files the device left in it
    output_dir,    \* the output root: data/<dir>/<file> and the session table
    calls,         \* the convert_run calls made so far, with what they returned
    \* ---- the command line on an input root (SpecCli)
    invocations,   \* the convert / convert-all commands run so far
    \* ---- validate_run on one run directory (SpecValidate)
    validated,     \* what validate_run returned
    \* ---- generate_session_metadata on its own (SpecSessions)
    generated      \* its arguments and what it returned

decodeVars == <<tier, data, sent, tail, records, sensor_dfs, dpc>>
folderVars == <<folder_name, parsed>>
runVars    == <<input_dir, output_dir, calls, invocations, validated, generated>>
vars == <<tier, data, sent, tail, records, sensor_dfs, dpc,
          folder_name, parsed, input_dir, output_dir, calls,
          invocations, validated, generated>>

----------------------------------------------------------------------------
(* Bounds *)

MaxRecords == 2        \* complete records per tier file in SpecDecode
MaxRunRecords == 3     \* complete records per run directory in Spec
MaxRunDirs == 2        \* run directories in SpecBatch
MaxCalls == 2          \* convert_run calls in SpecBatch

----------------------------------------------------------------------------
(* Generic helpers *)

Min(a, b) == IF a < b THEN a ELSE b

Range(s) == {s[i] : i \in DOMAIN s}

RECURSIVE SumSeq(_)
SumSeq(s) == IF s = <<>> THEN 0 ELSE Head(s) + SumSeq(Tail(s))

----------------------------------------------------------------------------
(* Binary record formats: struct format strings, "<" = little-endian,      *)
(* standard sizes, no alignment.  A format is the sequence of its codes.   *)

FAST_RECORD_FORMAT   == <<"I", "B", "x", "x", "x", "f">>
MEDIUM_RECORD_FORMAT == <<"I", "f">>
SLOW_RECORD_FORMAT   == <<"I", "B", "x", "x", "x", "f">>

\* size in bytes of one format code
CodeSize(c) == CASE c = "I" -> 4 [] c = "f" -> 4 [] c = "B" -> 1 [] c = "x" -> 1

\* struct.calcsize
calcsize(fmt) == SumSeq([i \in DOMAIN fmt |-> CodeSize(fmt[i])])

FAST_RECORD_SIZE   == calcsize(FAST_RECORD_FORMAT)
MEDIUM_RECORD_SIZE == calcsize(MEDIUM_RECORD_FORMAT)
SLOW_RECORD_SIZE   == calcsize(SLOW_RECORD_FORMAT)

\* little-endian value of a byte string
RECURSIVE FromLE(_)
FromLE(b) == IF b = <<>> THEN 0 ELSE Head(b) + 256 * FromLE(Tail(b))

\* little-endian bytes of n, w bytes wide
RECURSIVE ToLE(_, _)
ToLE(n, w) == IF w = 0 THEN <<>> ELSE <<n % 256>> \o ToLE(n \div 256, w - 1)

\* the value of the little-endian field b of code c
Decode(c, b) ==
    IF CodeSize(c) = 4
    THEN <<FromLE(SubSeq(b, 3, 4)), FromLE(SubSeq(b, 1, 2))>>
    ELSE FromLE(b)

\* the little-endian bytes of value v of code c
Encode(c, v) ==
    IF CodeSize(c) = 4 THEN ToLE(v[2], 2) \o ToLE(v[1], 2) ELSE ToLE(v, 1)

\* a plausible bug: the pad bytes unpacked as values, like "B"
RECURSIVE unpack_from_reads_padding(_, _, _)
unpack_from_reads_padding(fmt, chunk, off) ==
    IF fmt = <<>> THEN <<>>
    ELSE <<Decode(Head(fmt), SubSeq(chunk, off + 1, off + CodeSize(Head(fmt))))>>
            \o unpack_from_reads_padding(Tail(fmt), chunk, off + CodeSize(Head(fmt)))

\* struct.unpack(fmt, chunk): one value per code, pad bytes ("x") skipped
RECURSIVE unpack_from(_, _, _)
unpack_from(fmt, chunk, off) ==
    IF fmt = <<>> THEN <<>>
    ELSE LET c    == Head(fmt)
             rest == unpack_from(Tail(fmt), chunk, off + CodeSize(c))
         IN  IF c = "x" THEN rest
             ELSE <<Decode(c, SubSeq(chunk, off + 1, off + CodeSize(c)))>>
                      \o rest

unpack(fmt, chunk) == unpack_from(fmt, chunk, 0)

\* struct.pack(fmt, *values) as the device and the test fixtures write a
\* record; pad is the content of the reserved bytes (struct.pack writes 0,
\* the firmware's packed struct leaves them to the device)
RECURSIVE pack_from(_, _, _)
pack_from(fmt, values, pad) ==
    IF fmt = <<>> THEN <<>>
    ELSE LET c == Head(fmt)
         IN  IF c = "x"
             THEN <<Head(pad)>> \o pack_from(Tail(fmt), values, Tail(pad))
             ELSE Encode(c, Head(values))
                      \o pack_from(Tail(fmt), Tail(values), pad)

pack(fmt, values, pad) == pack_from(fmt, values, pad)

----------------------------------------------------------------------------
(* Binary parsers *)

\* f.read(n) at position pos of a file holding bytes b
read(b, pos, n) == SubSeq(b, pos + 1, Min(pos + n, Len(b)))

\* the while-True loop shared by the three parsers: read one record,
\* stop at the first short read, unpack, append
RECURSIVE read_records(_, _, _, _)
read_records(fmt, size, b, pos) ==
    LET chunk == read(b, pos, size)
    IN  IF Len(chunk) < size THEN <<>>
        ELSE <<unpack(fmt, chunk)>> \o read_records(fmt, size, b, pos + size)

\* a plausible bug: stop only at end of file and decode the zero-filled
\* remainder as a record
RECURSIVE read_records_eof_only(_, _, _, _)
read_records_eof_only(fmt, size, b, pos) ==
    LET chunk == read(b, pos, size)
    IN  IF Len(chunk) = 0 THEN <<>>
        ELSE <<unpack(fmt, chunk \o [i \in 1..(size - Len(chunk)) |-> 0])>>
                 \o read_records_eof_only(fmt, size, b, pos + size)

parse_fast_data_eof_only(b) ==
    read_records_eof_only(FAST_RECORD_FORMAT, FAST_RECORD_SIZE, b, 0)

\* a plausible bug: reading starts after a 4-byte file header that the
\* format does not have
parse_fast_data_skip_header(b) ==
    read_records(FAST_RECORD_FORMAT, FAST_RECORD_SIZE, b, 4)

\* a plausible bug: big-endian format string (">I B 3x f")
RECURSIVE Reverse(_)
Reverse(s) == IF s = <<>> THEN <<>> ELSE Reverse(Tail(s)) \o <<Head(s)>>

RECURSIVE read_records_big_endian(_, _)
read_records_big_endian(b, pos) ==
    LET chunk == read(b, pos, FAST_RECORD_SIZE)
    IN  IF Len(chunk) < FAST_RECORD_SIZE THEN <<>>
        ELSE << << <<FromLE(Reverse(SubSeq(chunk, 1, 2))),
                     FromLE(Reverse(SubSeq(chunk, 3, 4)))>>,
                   chunk[5],
                   <<FromLE(Reverse(SubSeq(chunk, 9, 10))),
                     FromLE(Reverse(SubSeq(chunk, 11, 12)))>> >> >>
                 \o read_records_big_endian(b, pos + FAST_RECORD_SIZE)

parse_fast_data_big_endian(b) == read_records_big_endian(b, 0)

parse_fast_data(b) ==
    read_records(FAST_RECORD_FORMAT, FAST_RECORD_SIZE, b, 0)

parse_medium_data(b) ==
    read_records(MEDIUM_RECORD_FORMAT, MEDIUM_RECORD_SIZE, b, 0)

parse_slow_data(b) ==
    read_records(SLOW_RECORD_FORMAT, SLOW_RECORD_SIZE, b, 0)

----------------------------------------------------------------------------
(* Python dict: <<key, value>> pairs in insertion order, keys unique *)

DictKeys(d) == {d[i][1] : i \in DOMAIN d}

DictHas(d, k) == \E i \in DOMAIN d : d[i][1] = k

DictGet(d, k) == d[CHOOSE i \in DOMAIN d : d[i][1] = k][2]

\* d[k] = v
DictSet(d, k, v) ==
    IF DictHas(d, k)
    THEN [i \in DOMAIN d |-> IF d[i][1] = k THEN <<k, v>> ELSE d[i]]
    ELSE Append(d, <<k, v>>)

\* d.update(e)
RECURSIVE DictUpdate(_, _)
DictUpdate(d, e) ==
    IF e = <<>> THEN d
    ELSE DictUpdate(DictSet(d, Head(e)[1], Head(e)[2]), Tail(e))

----------------------------------------------------------------------------
(* Sensor id mapping *)

SENSOR_ID_TO_NAME ==
    << <<0, "imu">>, <<1, "vibration">>, <<2, "current">>,
       <<3, "pressure">>, <<4, "temperature">> >>

FAST_SENSOR_IDS == <<0, 1>>     \* convert_run: split_by_sensor(records, [0, 1])
SLOW_SENSOR_IDS == <<3, 4>>     \* convert_run: split_by_sensor(records, [3, 4])

----------------------------------------------------------------------------
(* Data processing: split_by_sensor *)

\* a plausible bug: a list for every canonical sensor, whatever the tier
empty_sensor_data_every_id(sensor_ids) ==
    [i \in DOMAIN SENSOR_ID_TO_NAME |-> <<SENSOR_ID_TO_NAME[i][2], <<>> >>]

\* {SENSOR_ID_TO_NAME[sid]: [] for sid in sensor_ids}
RECURSIVE empty_sensor_data(_)
empty_sensor_data(sensor_ids) ==
    IF sensor_ids = <<>> THEN <<>>
    ELSE DictUpdate(<< <<DictGet(SENSOR_ID_TO_NAME, Head(sensor_ids)), <<>> >> >>,
                    empty_sensor_data(Tail(sensor_ids)))

\* a plausible bug: no "if sensor_name in sensor_data" test, the list is
\* created on demand (setdefault), so another tier's id gets a series
append_record_setdefault(sensor_data, rec) ==
    IF DictHas(SENSOR_ID_TO_NAME, rec[2])
    THEN LET sensor_name == DictGet(SENSOR_ID_TO_NAME, rec[2])
             old == IF DictHas(sensor_data, sensor_name)
                    THEN DictGet(sensor_data, sensor_name) ELSE <<>>
         IN  DictSet(sensor_data, sensor_name, Append(old, <<rec[1], rec[3]>>))
    ELSE sensor_data

\* a plausible bug: insert at the front instead of append
append_record_front(sensor_data, rec) ==
    IF DictHas(SENSOR_ID_TO_NAME, rec[2])
    THEN LET sensor_name == DictGet(SENSOR_ID_TO_NAME, rec[2])
         IN  IF DictHas(sensor_data, sensor_name)
             THEN DictSet(sensor_data, sensor_name,
                          <<<<rec[1], rec[3]>>>>
                              \o DictGet(sensor_data, sensor_name))
             ELSE sensor_data
    ELSE sensor_data

\* one iteration of "for timestamp_ms, sensor_id, value in records"
append_record(sensor_data, rec) ==
    IF DictHas(SENSOR_ID_TO_NAME, rec[2])
    THEN LET sensor_name == DictGet(SENSOR_ID_TO_NAME, rec[2])
         IN  IF DictHas(sensor_data, sensor_name)
             THEN DictSet(sensor_data, sensor_name,
                          Append(DictGet(sensor_data, sensor_name),
                                 <<rec[1], rec[3]>>))
             ELSE sensor_data
    ELSE sensor_data

RECURSIVE fill_sensor_data(_, _)
fill_sensor_data(sensor_data, recs) ==
    IF recs = <<>> THEN sensor_data
    ELSE fill_sensor_data(append_record(sensor_data, Head(recs)), Tail(recs))

\* a plausible bug: the "if data:" test is missing
all_frames(sensor_data) == sensor_data

\* "for sensor_name, data in sensor_data.items(): if data: result[...] = df"
RECURSIVE non_empty_frames(_)
non_empty_frames(sensor_data) ==
    IF sensor_data = <<>> THEN <<>>
    ELSE LET sensor_name == Head(sensor_data)[1]
             rows        == Head(sensor_data)[2]
             rest        == non_empty_frames(Tail(sensor_data))
         IN  IF rows # <<>>
             THEN DictUpdate(<< <<sensor_name, rows>> >>, rest)
             ELSE rest

split_by_sensor(recs, sensor_ids) ==
    non_empty_frames(fill_sensor_data(empty_sensor_data(sensor_ids), recs))

----------------------------------------------------------------------------
(* SpecDecode: the device writes one tier file, record by record, possibly *)
(* interrupted in the middle of a record; the file is then parsed and, for *)
(* the tiers that carry a sensor id, demultiplexed.                        *)

Tiers == {"fast", "medium", "slow"}

FormatOf(t) == CASE t = "fast"   -> FAST_RECORD_FORMAT
                 [] t = "medium" -> MEDIUM_RECORD_FORMAT
                 [] t = "slow"   -> SLOW_RECORD_FORMAT

SizeOf(t) == CASE t = "fast"   -> FAST_RECORD_SIZE
               [] t = "medium" -> MEDIUM_RECORD_SIZE
               [] t = "slow"   -> SLOW_RECORD_SIZE

ParseOf(t, b) == CASE t = "fast"   -> parse_fast_data(b)
                   [] t = "medium" -> parse_medium_data(b)
                   [] t = "slow"   -> parse_slow_data(b)

SensorIdsOf(t) == IF t = "fast" THEN FAST_SENSOR_IDS ELSE SLOW_SENSOR_IDS

\* 32-bit patterns as <<high, low>>
T0     == <<0, 0>>              \* timestamp 0
T1     == <<0, 1>>              \* timestamp 1
TMixed == <<258, 772>>          \* 0x01020304
TMax   == <<65535, 65535>>      \* 2^32 - 1
F0_0   == <<0, 0>>              \* 0.0
F0_5   == <<16128, 0>>          \* 0.5
F1_0   == <<16256, 0>>          \* 1.0
F1_5   == <<16320, 0>>          \* 1.5
FNaN   == <<65535, 65535>>      \* a NaN

\* (timestamp_ms, sensor_id, value bits) written to an id-carrying tier:
\* every canonical id, an unknown id (255), the extremes of uint32, a
\* timestamp whose four bytes differ, two records of one sensor with
\* decreasing timestamps
IdRecords ==
    { <<T1, 0, F1_0>>, <<T0, 0, F0_5>>, <<T0, 1, F0_0>>,
      <<<<0, 258>>, 2, <<0, 1>>>>, <<TMax, 3, FNaN>>,
      <<TMixed, 4, <<49024, 0>>>>, <<<<1, 0>>, 255, <<32768, 0>>>> }

\* (timestamp_ms, value bits) written to the medium tier
PlainRecords ==
    { <<<<0, 5>>, F1_5>>, <<T0, F0_0>>, <<TMax, FNaN>>, <<TMixed, <<0, 1>>>> }

\* contents of the three reserved bytes
PadValues == { <<0, 0, 0>>, <<255, 1, 128>> }

RecordsOf(t) == IF t = "medium" THEN PlainRecords ELSE IdRecords

\* the bytes of a record whose writing was interrupted
InterruptedRecord(t) ==
    pack(FormatOf(t),
         IF t = "medium" THEN <<<<65280, 65281>>, F1_5>>
                         ELSE <<<<65280, 65281>>, 1, F1_5>>,
         <<7, 8, 9>>)

NotYet == "not yet"

\* the parts of the state a specification does not use stay as they are here
IdleDecode ==
    /\ tier = "fast"
    /\ data = <<>>
    /\ sent = <<>>
    /\ tail = 0
    /\ records = NotYet
    /\ sensor_dfs = NotYet
    /\ dpc = "writing"

IdleFolder ==
    /\ folder_name = <<>>
    /\ parsed = NotYet

IdleRun ==
    /\ input_dir = <<>>
    /\ output_dir = [data |-> <<>>, sessions |-> <<>>]
    /\ calls = <<>>
    /\ invocations = <<>>
    /\ validated = <<>>
    /\ generated = <<>>

InitDecode ==
    /\ IdleFolder
    /\ IdleRun
    /\ tier \in Tiers
    /\ data = <<>>
    /\ sent = <<>>
    /\ tail = 0
    /\ records = NotYet
    /\ sensor_dfs = NotYet
    /\ dpc = "writing"

DeviceWritesRecord ==
    /\ dpc = "writing"
    /\ Len(sent) < MaxRecords
    /\ \E r \in RecordsOf(tier), pad \in PadValues :
          /\ data' = data \o pack(FormatOf(tier), r, pad)
          /\ sent' = Append(sent, r)
    /\ UNCHANGED <<tier, tail, records, sensor_dfs, dpc>>
    /\ UNCHANGED <<folderVars, runVars>>

DeviceInterrupted ==
    /\ dpc = "writing"
    /\ \E k \in 1..(SizeOf(tier) - 1) :
          /\ data' = data \o SubSeq(InterruptedRecord(tier), 1, k)
          /\ tail' = k
    /\ dpc' = "closed"
    /\ UNCHANGED <<tier, sent, records, sensor_dfs>>
    /\ UNCHANGED <<folderVars, runVars>>

Parse ==
    /\ dpc \in {"writing", "closed"}
    /\ records' = ParseOf(tier, data)
    /\ dpc' = "parsed"
    /\ UNCHANGED <<tier, data, sent, tail, sensor_dfs>>
    /\ UNCHANGED <<folderVars, runVars>>

Split ==
    /\ dpc = "parsed"
    /\ tier # "medium"
    /\ sensor_dfs' = split_by_sensor(records, SensorIdsOf(tier))
    /\ dpc' = "split"
    /\ UNCHANGED <<tier, data, sent, tail, records>>
    /\ UNCHANGED <<folderVars, runVars>>

NextDecode == DeviceWritesRecord \/ DeviceInterrupted \/ Parse \/ Split

SpecDecode == InitDecode /\ [][NextDecode]_vars

Parsed == dpc \in {"parsed", "split"}

\* the file as it was before the interrupted record
Body == SubSeq(data, 1, Len(data) - tail)

----------------------------------------------------------------------------
(* C1: truncation tolerance. A file that is a whole number of records      *)
(* followed by 1..record_size-1 extra bytes decodes to exactly what the    *)
(* whole records alone decode to.                                          *)
C1_TruncationTolerance ==
    Parsed => /\ Len(Body) % SizeOf(tier) = 0
              /\ records = ParseOf(tier, Body)
              /\ Len(records) = Len(sent)

C1_Witness ==
    /\ Parsed
    /\ tier = "fast"
    /\ tail = FAST_RECORD_SIZE - 1
    /\ Len(records) = 2

(* C2: the decoder returns floor(L / record_size) records, the i-th one    *)
(* unpacked from bytes [i*size, (i+1)*size) counted from offset 0, in file *)
(* order; an empty buffer gives the empty sequence.                        *)
C2_CountAndOffsets ==
    Parsed =>
        /\ Len(records) = Len(data) \div SizeOf(tier)
        /\ \A i \in 0..(Len(records) - 1) :
              records[i + 1] =
                  unpack(FormatOf(tier),
                         SubSeq(data, i * SizeOf(tier) + 1,
                                (i + 1) * SizeOf(tier)))
        /\ (data = <<>> => records = <<>>)

C2_Witness ==
    /\ Parsed
    /\ tier = "medium"
    /\ Len(data) = 2 * MEDIUM_RECORD_SIZE + 3
    /\ Len(records) = 2

(* C3: round trip. Decoding N packed records gives N tuples, in order,     *)
(* whose timestamp_ms and sensor_id equal the packed integers.             *)
C3_RoundTrip ==
    Parsed =>
        /\ Len(records) = Len(sent)
        /\ \A i \in DOMAIN sent :
              /\ records[i][1] = sent[i][1]
              /\ tier # "medium" => records[i][2] = sent[i][2]

C3_Witness ==
    /\ Parsed
    /\ tier = "fast"
    /\ Len(sent) = 2
    /\ sent[1] = <<TMax, 3, FNaN>>
    /\ sent[2] = <<<<1, 0>>, 255, <<32768, 0>>>>
    /\ records[1][1] = TMax
    /\ records[2][2] = 255

----------------------------------------------------------------------------
(* the input records that carry sensor id sid, as (timestamp_ms, value)    *)
RECURSIVE RowsOf(_, _)
RowsOf(recs, sid) ==
    IF recs = <<>> THEN <<>>
    ELSE (IF Head(recs)[2] = sid
          THEN << <<Head(recs)[1], Head(recs)[3]>> >> ELSE <<>>)
             \o RowsOf(Tail(recs), sid)

IdOfName(name) ==
    CHOOSE sid \in 0..4 : DictGet(SENSOR_ID_TO_NAME, sid) = name

(* C4: demux completeness. The series' lengths add up to the number of     *)
(* input records whose id is one of the tier's ids; the others are dropped.*)
C4_DemuxCompleteness ==
    dpc = "split" =>
        SumSeq([i \in DOMAIN sensor_dfs |-> Len(sensor_dfs[i][2])])
            = Cardinality({i \in DOMAIN records :
                              records[i][2] \in Range(SensorIdsOf(tier))})

C4_Witness ==
    /\ dpc = "split"
    /\ tier = "fast"
    /\ Len(records) = 2
    /\ records[1][2] = 3          \* another tier's id: dropped
    /\ records[2][2] = 0
    /\ sensor_dfs = << <<"imu", << <<T1, F1_0>> >> >> >>

(* C5: demux order preservation. Each series is exactly the subsequence of *)
(* the input records carrying its sensor id, in input order, whatever the  *)
(* timestamps.                                                             *)
C5_DemuxOrder ==
    dpc = "split" =>
        \A i \in DOMAIN sensor_dfs :
            sensor_dfs[i][2] = RowsOf(records, IdOfName(sensor_dfs[i][1]))

C5_Witness ==
    /\ dpc = "split"
    /\ sensor_dfs = << <<"imu", << <<T1, F1_0>>, <<T0, F0_5>> >> >> >>

----------------------------------------------------------------------------
(* Python str: a sequence of one-character strings *)

Digits == <<"0", "1", "2", "3", "4", "5", "6", "7", "8", "9">>

LowerCase == <<"a", "b", "c", "d", "e", "f", "g", "h", "i", "j", "k", "l", "m",
               "n", "o", "p", "q", "r", "s", "t", "u", "v", "w", "x", "y", "z">>

UpperCase == <<"A", "B", "C", "D", "E", "F", "G", "H", "I", "J", "K", "L", "M",
               "N", "O", "P", "Q", "R", "S", "T", "U", "V", "W", "X", "Y", "Z">>

\* \d of the re module, on the characters of the model
IsDigit(c) == \E i \in DOMAIN Digits : Digits[i] = c

DigitValue(c) == (CHOOSE i \in DOMAIN Digits : Digits[i] = c) - 1

\* str.upper / str.lower, character by character
UpperChar(c) ==
    IF \E i \in DOMAIN LowerCase : LowerCase[i] = c
    THEN UpperCase[CHOOSE i \in DOMAIN LowerCase : LowerCase[i] = c]
    ELSE c

LowerChar(c) ==
    IF \E i \in DOMAIN UpperCase : UpperCase[i] = c
    THEN LowerCase[CHOOSE i \in DOMAIN UpperCase : UpperCase[i] = c]
    ELSE c

upper(s) == [i \in DOMAIN s |-> UpperChar(s[i])]

\* int(s) for a string of digits
RECURSIVE int(_)
int(s) ==
    IF s = <<>> THEN 0
    ELSE 10 * int(SubSeq(s, 1, Len(s) - 1)) + DigitValue(s[Len(s)])

\* str(n) for n >= 0
RECURSIVE str(_)
str(n) ==
    IF n < 10 THEN <<Digits[n + 1]>>
    ELSE str(n \div 10) \o <<Digits[(n % 10) + 1]>>

\* f"{n:0<w>d}": decimal, zero-filled on the left up to width w
RECURSIVE zfill(_, _)
zfill(s, w) == IF Len(s) >= w THEN s ELSE zfill(<<"0">> \o s, w)

format_0d(n, w) == zfill(str(n), w)

----------------------------------------------------------------------------
(* re.match(pattern, s, re.IGNORECASE) for the two patterns of             *)
(* parse_folder_name.  A match is anchored at the start of s and may end   *)
(* anywhere.  A position is the number of characters consumed; NoMatch is  *)
(* a failed match.  \d+ is greedy; giving back a digit never helps here,   *)
(* since what follows \d+ in both patterns is "_" or the end of the        *)
(* pattern.                                                                *)

NoMatch == -1

\* the literal lit at position pos; ignorecase is the re.IGNORECASE flag
match_literal(s, pos, lit, ignorecase) ==
    IF /\ pos # NoMatch
       /\ pos + Len(lit) <= Len(s)
       /\ \A i \in DOMAIN lit :
             IF ignorecase
             THEN LowerChar(s[pos + i]) = LowerChar(lit[i])
             ELSE s[pos + i] = lit[i]
    THEN pos + Len(lit)
    ELSE NoMatch

\* \d+ at position pos
RECURSIVE digits_end(_, _)
digits_end(s, pos) ==
    IF pos < Len(s) /\ IsDigit(s[pos + 1]) THEN digits_end(s, pos + 1) ELSE pos

match_digits(s, pos) ==
    IF pos # NoMatch /\ digits_end(s, pos) > pos
    THEN digits_end(s, pos)
    ELSE NoMatch

PAT_UNIT    == <<"U", "N", "I", "T", "_">>       \* "UNIT_" of the pattern
PAT_MID_RUN == <<"_", "R", "U", "N", "_">>       \* "_RUN_" of the pattern
PAT_RUN     == <<"R", "U", "N", "_">>            \* "RUN_" of the pattern

\* None is the empty sequence: a match object is the non-empty sequence of
\* its groups, an Optional[T] that is not None is the one-element <<value>>
None == <<>>

\* re.match(r"UNIT_(\d+)_RUN_(\d+)", s, flags)
match_unit_run(s, ignorecase) ==
    LET p1 == match_literal(s, 0, PAT_UNIT, ignorecase)
        p2 == match_digits(s, p1)
        p3 == match_literal(s, p2, PAT_MID_RUN, ignorecase)
        p4 == match_digits(s, p3)
    IN  IF p4 = NoMatch THEN None
        ELSE <<SubSeq(s, p1 + 1, p2), SubSeq(s, p3 + 1, p4)>>

\* re.match(r"RUN_(\d+)", s, flags)
match_run(s, ignorecase) ==
    LET p1 == match_literal(s, 0, PAT_RUN, ignorecase)
        p2 == match_digits(s, p1)
    IN  IF p2 = NoMatch THEN None ELSE <<SubSeq(s, p1 + 1, p2)>>

STR_unit     == <<"u", "n", "i", "t", "_">>                         \* "unit_"
STR_RUN      == <<"R", "U", "N", "_">>                              \* "RUN_"
STR_unit0001 == <<"u", "n", "i", "t", "_", "0", "0", "0", "1">>     \* "unit_0001"

\* the body of parse_folder_name, with the flag both re.match calls pass
folder_name_parts(name, ignorecase) ==
    LET m1 == match_unit_run(name, ignorecase)
        m2 == match_run(name, ignorecase)
    IN  IF m1 # None
        THEN LET unit_num == int(m1[1])
                 run_num  == int(m1[2])
             IN  <<STR_unit \o format_0d(unit_num, 4),
                   STR_RUN \o format_0d(run_num, 3)>>
        ELSE IF m2 # None
             THEN LET run_num == int(m2[1])
                  IN  <<STR_unit0001, STR_RUN \o format_0d(run_num, 3)>>
             ELSE <<STR_unit0001, name>>

\* a plausible bug: re.IGNORECASE left out
parse_folder_name_case_sensitive(name) == folder_name_parts(name, FALSE)

\* a plausible bug: the run id is the matched text, not "RUN_%03d"
parse_folder_name_keeps_text(name) ==
    IF match_unit_run(name, TRUE) = None /\ match_run(name, TRUE) # None
    THEN <<STR_unit0001, SubSeq(name, 1, 4 + Len(match_run(name, TRUE)[1]))>>
    ELSE folder_name_parts(name, TRUE)

parse_folder_name(name) == folder_name_parts(name, TRUE)

----------------------------------------------------------------------------
(* SpecFolder: parse_folder_name applied to one folder name *)

S_UNIT == {PAT_UNIT, STR_unit, <<"U", "n", "i", "t", "_">>,
           <<"U", "N", "I", "T">>, <<>>}
S_NUM1 == {<<>>, <<"1">>, <<"0", "0", "1">>, <<"4", "2">>,
           <<"1", "2", "3", "4", "5">>}
S_RUN  == {PAT_MID_RUN, <<"_", "r", "u", "n", "_">>, PAT_RUN,
           <<"r", "U", "n", "_">>, <<"_", "R", "U", "N">>, <<>>}
S_NUM2 == {<<>>, <<"5">>, <<"0", "0", "1">>, <<"1", "2", "3">>,
           <<"0", "1", "2", "3", "4">>}
S_TAIL == {<<>>, <<"x">>, <<"_", "b">>}

some_random_folder ==
    <<"s", "o", "m", "e", "_", "r", "a", "n", "d", "o", "m", "_",
      "f", "o", "l", "d", "e", "r">>

\* folder names: the recognised forms in several spellings, near misses
\* (a part missing, text after the number) and an unrelated name
FolderNames ==
    {a \o b \o c \o d \o e :
        a \in S_UNIT, b \in S_NUM1, c \in S_RUN, d \in S_NUM2, e \in S_TAIL}
        \cup {some_random_folder}

InitFolder ==
    /\ IdleDecode
    /\ IdleRun
    /\ folder_name \in FolderNames
    /\ parsed = <<>>

ParseFolderName ==
    /\ parsed = <<>>
    /\ parsed' = parse_folder_name(folder_name)
    /\ UNCHANGED <<folder_name, decodeVars, runVars>>

NextFolder == ParseFolderName

SpecFolder == InitFolder /\ [][NextFolder]_vars

----------------------------------------------------------------------------
(* What the claims call "a name of the form UNIT_<n>_RUN_<m>" and "of the  *)
(* form RUN_<m>": the whole name, letters in any case, <n> and <m>         *)
(* non-empty runs of digits.                                               *)

lower(s) == [i \in DOMAIN s |-> LowerChar(s[i])]

AllDigits(s) == s # <<>> /\ \A i \in DOMAIN s : IsDigit(s[i])

\* the <<n, m>> for which name reads UNIT_<n>_RUN_<m>
UnitRunForms(name) ==
    {<<SubSeq(name, 6, i), SubSeq(name, i + 6, Len(name))>> :
        i \in {k \in 6..(Len(name) - 6) :
                 /\ lower(SubSeq(name, 1, 5)) = lower(PAT_UNIT)
                 /\ AllDigits(SubSeq(name, 6, k))
                 /\ lower(SubSeq(name, k + 1, k + 5)) = lower(PAT_MID_RUN)
                 /\ AllDigits(SubSeq(name, k + 6, Len(name)))}}

\* the <<m>> for which name reads RUN_<m>
RunForms(name) ==
    IF /\ Len(name) >= 5
       /\ lower(SubSeq(name, 1, 4)) = lower(PAT_RUN)
       /\ AllDigits(SubSeq(name, 5, Len(name)))
    THEN {<<SubSeq(name, 5, Len(name))>>}
    ELSE {}

\* the number written by the digits d, zero-padded to at least w digits
RECURSIVE StripZeros(_)
StripZeros(d) ==
    IF Len(d) > 1 /\ Head(d) = "0" THEN StripZeros(Tail(d)) ELSE d

Padded(d, w) == zfill(StripZeros(d), w)

(* C7: a name UNIT_<n>_RUN_<m>, in any case, gives ("unit_" + n padded to  *)
(* 4 digits, "RUN_" + m padded to 3 digits); a name RUN_<m> gives          *)
(* ("unit_0001", "RUN_" + m padded to 3 digits); the prefix of the run id  *)
(* is upper-case "RUN_" whatever the case of the input.                    *)
C7_RecognisedForms ==
    parsed # <<>> =>
        /\ \A f \in UnitRunForms(folder_name) :
              parsed = <<STR_unit \o Padded(f[1], 4), STR_RUN \o Padded(f[2], 3)>>
        /\ \A f \in RunForms(folder_name) :
              parsed = <<STR_unit0001, STR_RUN \o Padded(f[1], 3)>>

C7_Witness ==
    /\ folder_name = <<"u", "n", "i", "t", "_", "4", "2", "_", "r", "u", "n", "_", "5">>
    /\ parsed = << <<"u", "n", "i", "t", "_", "0", "0", "4", "2">>,
                   <<"R", "U", "N", "_", "0", "0", "5">> >>

(* C8: parse_folder_name never fails, and a name that is neither           *)
(* UNIT_<n>_RUN_<m> nor RUN_<m> comes back as ("unit_0001", the name       *)
(* unchanged).                                                             *)
C8_FallbackVerbatim ==
    parsed # <<>> =>
        (UnitRunForms(folder_name) = {} /\ RunForms(folder_name) = {}
            => parsed = <<STR_unit0001, folder_name>>)

\* "RUN_5_b" is of neither form, and comes back as run 5
C8_PrefixTaken ==
    /\ folder_name = <<"R", "U", "N", "_", "5", "_", "b">>
    /\ parsed = <<STR_unit0001, <<"R", "U", "N", "_", "0", "0", "5">> >>

----------------------------------------------------------------------------
(* Files.  A directory is a function from the names of the files in it to  *)
(* their contents: path.exists() is membership in its domain.              *)

FAST_FILE   == "fast_data.bin"
MEDIUM_FILE == "medium_data.bin"
SLOW_FILE   == "slow_data.bin"
META_FILE   == "meta.json"

exists(dir, fname) == fname \in DOMAIN dir

\* the directory with one more file (or the file replaced)
WriteFile(dir, fname, content) ==
    [f \in DOMAIN dir \cup {fname} |-> IF f = fname THEN content ELSE dir[f]]

\* meta.json: whether json.load and FirmwareMetadata.model_validate accept
\* it, and the two fields the converter reads
MetaJson(ok, start, ms) == [valid |-> ok, start_time |-> start, duration_ms |-> ms]

\* load_firmware_metadata: the parsed model, or an exception
load_firmware_metadata(content) ==
    IF content.valid
    THEN [raised |-> FALSE,
          meta   |-> <<[start_time  |-> content.start_time,
                        duration_ms |-> content.duration_ms]>>]
    ELSE [raised |-> TRUE, meta |-> None]

----------------------------------------------------------------------------
(* Session metadata *)

HealthLabel == {"unknown", "healthy", "degraded", "faulty"}

SENSOR_NAME_TO_INFO ==
    << <<"imu",         [id |-> 0, rate |-> 1000, unit |-> "m/s^2"]>>,
       <<"vibration",   [id |-> 1, rate |-> 1000, unit |-> "binary"]>>,
       <<"current",     [id |-> 2, rate |-> 200,  unit |-> "A"]>>,
       <<"pressure",    [id |-> 3, rate |-> 50,   unit |-> "kPa"]>>,
       <<"temperature", [id |-> 4, rate |-> 50,   unit |-> "C"]>> >>

\* Python ints have no upper limit: a non-negative int is carried as its
\* decimal digits without leading zeros
RECURSIVE strip_zeros(_)
strip_zeros(d) ==
    IF Len(d) > 1 /\ Head(d) = "0" THEN strip_zeros(Tail(d)) ELSE d

\* a <= b for two such ints
RECURSIVE digits_leq(_, _)
digits_leq(a, b) ==
    IF Len(a) # Len(b) THEN Len(a) < Len(b)
    ELSE IF a = <<>> THEN TRUE
    ELSE IF Head(a) # Head(b) THEN DigitValue(Head(a)) < DigitValue(Head(b))
    ELSE digits_leq(Tail(a), Tail(b))

\* the digits of a str
only_digits(s) == SelectSeq(s, IsDigit)

\* a decimal literal of int(): digits, with single "_" between digits
is_int_literal(s) ==
    /\ s # <<>>
    /\ IsDigit(s[1]) /\ IsDigit(s[Len(s)])
    /\ \A i \in DOMAIN s : IsDigit(s[i]) \/ s[i] = "_"
    /\ \A i \in 1..(Len(s) - 1) : ~(s[i] = "_" /\ s[i + 1] = "_")

\* int(firmware_meta.start_time), on strings of the model's characters
\* (letters, digits, "_"): the number, else ValueError
int_of_str(s) ==
    IF is_int_literal(s)
    THEN [raised |-> "no", value |-> strip_zeros(only_digits(s))]
    ELSE [raised |-> "ValueError", value |-> <<>>]

\* year 9999-12-31T23:59:59Z: the last second datetime can hold
DATETIME_MAX_S == <<"2", "5", "3", "4", "0", "2", "3", "0", "0", "7", "9", "9">>
\* the last second whose year fits the C library's int tm_year
GMTIME_MAX_S   == <<"6", "7", "7", "6", "8", "0", "3", "6", "1", "9", "1",
                    "6", "7", "6", "7", "9", "9">>
\* 2^63 - 1: the last second a 64-bit time_t can hold
TIME_T_MAX_S   == <<"9", "2", "2", "3", "3", "7", "2", "0", "3", "6", "8",
                    "5", "4", "7", "7", "5", "8", "0", "7">>

\* datetime.fromtimestamp(n, tz=timezone.utc) for n >= 0 (CPython, 64-bit
\* Linux): the exception it raises, if any
fromtimestamp_raises(n) ==
    IF digits_leq(n, DATETIME_MAX_S) THEN "no"
    ELSE IF digits_leq(n, GMTIME_MAX_S) THEN "ValueError"
    ELSE IF digits_leq(n, TIME_T_MAX_S) THEN "OSError"
    ELSE "OverflowError"

\* a datetime: the clock reading of datetime.now, or a given Unix second
Now == [clock |-> TRUE, seconds |-> <<>>]
At(n) == [clock |-> FALSE, seconds |-> n]

\* a plausible bug: the milliseconds taken as seconds
duration_unscaled(ms) == [num |-> ms, den |-> 1]

\* duration_ms / 1000.0, kept as the fraction it is
DurationS(ms) == [num |-> ms, den |-> 1000]
ZeroS == [num |-> 0, den |-> 1]

\* "Determine start time and duration": the start time, the duration and
\* the exception that escapes, if any
start_and_duration(firmware_meta) ==
    IF firmware_meta # None
    THEN LET i == int_of_str(firmware_meta[1].start_time)
             r == IF i.raised = "no" THEN fromtimestamp_raises(i.value)
                  ELSE i.raised
         IN  [raised     |-> r \notin {"no", "ValueError", "TypeError"},
              start_time |-> IF r = "no" THEN At(i.value) ELSE Now,
              duration_s |-> DurationS(firmware_meta[1].duration_ms)]
    ELSE [raised |-> FALSE, start_time |-> Now, duration_s |-> ZeroS]

\* the SessionRecord built for one item of output_files
session_record(sensor_name, csv_path, unit_id, run_id, timing, health_label) ==
    [session_id       |-> run_id,
     unit_id          |-> unit_id,
     sensor_name      |-> sensor_name,
     file_name        |-> csv_path[Len(csv_path)],
     file_format      |-> "csv",
     start_time_utc   |-> timing.start_time,
     duration_s       |-> timing.duration_s,
     sampling_rate_hz |-> IF DictHas(SENSOR_NAME_TO_INFO, sensor_name)
                          THEN DictGet(SENSOR_NAME_TO_INFO, sensor_name).rate
                          ELSE 0,
     units            |-> IF DictHas(SENSOR_NAME_TO_INFO, sensor_name)
                          THEN DictGet(SENSOR_NAME_TO_INFO, sensor_name).unit
                          ELSE "unknown",
     health_label     |-> health_label]

\* a plausible bug: a name that is not in the table is skipped
session_records_for_known(output_files, unit_id, run_id, timing, health_label) ==
    LET known == SelectSeq(output_files,
                           LAMBDA item : DictHas(SENSOR_NAME_TO_INFO, item[1]))
    IN  [i \in DOMAIN known |->
            session_record(known[i][1], known[i][2],
                           unit_id, run_id, timing, health_label)]

\* "for sensor_name, csv_path in output_files.items(): records.append(...)"
session_records_for(output_files, unit_id, run_id, timing, health_label) ==
    [i \in DOMAIN output_files |->
        session_record(output_files[i][1], output_files[i][2],
                       unit_id, run_id, timing, health_label)]

\* generate_session_metadata: the list of records, or an exception
generate_session_metadata(firmware_meta, unit_id, run_id, output_files, health_label) ==
    LET timing == start_and_duration(firmware_meta)
    IN  IF timing.raised
        THEN [raised |-> TRUE, records |-> <<>>]
        ELSE [raised |-> FALSE,
              records |-> session_records_for(output_files, unit_id, run_id,
                                              timing, health_label)]

----------------------------------------------------------------------------
(* convert_run *)

\* the output root: data/<run output dir>/<sensor>.csv, each file the rows
\* written to it, and metadata/sessions/sessions.csv (None while absent)
EmptyOutput == [data |-> <<>>, sessions |-> None]

\* a plausible bug: the unit id left out of the directory name
run_output_dir_name_no_unit(unit_id, run_id) == run_id

\* f"{unit_id.upper()}_{run_id}"
run_output_dir_name(unit_id, run_id) == upper(unit_id) \o <<"_">> \o run_id

\* run_output_dir.mkdir(parents=True, exist_ok=True)
mkdir(tree, dirname) ==
    IF dirname \in DOMAIN tree THEN tree ELSE WriteFile(tree, dirname, <<>>)

\* a plausible bug: a descriptor that does not load is replaced by a
\* default one
firmware_meta_of_defaulted(dir) ==
    IF exists(dir, META_FILE)
    THEN LET loaded == load_firmware_metadata(dir[META_FILE])
         IN  IF loaded.raised
             THEN <<[start_time |-> <<"0">>, duration_ms |-> 1000]>>
             ELSE loaded.meta
    ELSE None

\* "Load firmware metadata if available": None unless meta.json is there
\* and loads
firmware_meta_of(dir) ==
    IF exists(dir, META_FILE)
    THEN LET loaded == load_firmware_metadata(dir[META_FILE])
         IN  IF loaded.raised THEN None ELSE loaded.meta
    ELSE None

\* "Process fast data": all_dataframes after the fast tier
after_fast(dir, all_dataframes) ==
    IF exists(dir, FAST_FILE)
    THEN DictUpdate(all_dataframes,
                    split_by_sensor(parse_fast_data(dir[FAST_FILE]),
                                    FAST_SENSOR_IDS))
    ELSE all_dataframes

\* "Process medium data"
after_medium(dir, all_dataframes) ==
    IF exists(dir, MEDIUM_FILE)
    THEN LET recs == parse_medium_data(dir[MEDIUM_FILE])
         IN  IF recs # <<>> THEN DictSet(all_dataframes, "current", recs)
             ELSE all_dataframes
    ELSE all_dataframes

\* "Process slow data"
after_slow(dir, all_dataframes) ==
    IF exists(dir, SLOW_FILE)
    THEN DictUpdate(all_dataframes,
                    split_by_sensor(parse_slow_data(dir[SLOW_FILE]),
                                    SLOW_SENSOR_IDS))
    ELSE all_dataframes

\* "Write CSV files": the run output directory after the loop
RECURSIVE write_csv_files(_, _)
write_csv_files(files, all_dataframes) ==
    IF all_dataframes = <<>> THEN files
    ELSE write_csv_files(
             WriteFile(files, Head(all_dataframes)[1] \o ".csv",
                       Head(all_dataframes)[2]),
             Tail(all_dataframes))

\* output_files after the same loop: sensor name -> path of its CSV file
output_files_of(dirname, all_dataframes) ==
    [i \in DOMAIN all_dataframes |->
        <<all_dataframes[i][1],
          <<"data", dirname, all_dataframes[i][1] \o ".csv">> >>]

\* a plausible bug: the override ignored
unit_id_of_folder(unit_id_arg, folder_unit_id) == folder_unit_id

\* "if unit_id is None: unit_id = folder_unit_id"
unit_id_of(unit_id_arg, folder_unit_id) ==
    IF unit_id_arg = None THEN folder_unit_id ELSE unit_id_arg[1]

\* convert_run(run_dir, output_dir, unit_id, health_label): what it returns
\* or that it raised, and the output root it leaves.  name is run_dir.name,
\* dir the content of run_dir, unit_id_arg None or <<the override>>.
convert_run(name, dir, out, unit_id_arg, health_label) ==
    LET folder        == parse_folder_name(name)
        run_id        == folder[2]
        unit_id       == unit_id_of(unit_id_arg, folder[1])
        firmware_meta == firmware_meta_of(dir)
        dirname       == run_output_dir_name(unit_id, run_id)
        made          == mkdir(out.data, dirname)
        all_dataframes ==
            after_slow(dir, after_medium(dir, after_fast(dir, <<>>)))
        written       == WriteFile(made, dirname,
                                   write_csv_files(made[dirname], all_dataframes))
        output_files  == output_files_of(dirname, all_dataframes)
        sessions      == generate_session_metadata(firmware_meta, unit_id, run_id,
                                                   output_files, health_label)
    IN  [raised          |-> sessions.raised,
         unit_id         |-> unit_id,
         run_id          |-> run_id,
         run_output_dir  |-> dirname,
         output_files    |-> IF sessions.raised THEN <<>> ELSE output_files,
         session_records |-> sessions.records,
         out             |-> [out EXCEPT !.data = written]]

----------------------------------------------------------------------------
(* Spec: one run directory, any combination of tier files and descriptor,  *)
(* converted once by convert_run.                                          *)

\* the bytes of a tier file holding the records recs, reserved bytes zero
RECURSIVE BytesOf(_, _)
BytesOf(t, recs) ==
    IF recs = <<>> THEN <<>>
    ELSE pack(FormatOf(t), Head(recs), <<0, 0, 0>>) \o BytesOf(t, Tail(recs))

\* records of fast_data.bin: imu, vibration, and pressure's id
RunFastRecords == { <<T1, 0, F1_0>>, <<T0, 1, F0_0>>, <<T0, 3, F0_5>> }
\* records of medium_data.bin
RunMediumRecords == { <<<<0, 5>>, F1_5>> }
\* records of slow_data.bin: pressure, temperature, and imu's id
RunSlowRecords == { <<T0, 3, F1_5>>, <<T1, 4, F1_0>>, <<TMixed, 0, F0_5>> }

STR_1705920600 == <<"1", "7", "0", "5", "9", "2", "0", "6", "0", "0">>
STR_later      == <<"l", "a", "t", "e", "r">>
STR_1e19       == <<"1", "0", "0", "0", "0", "0", "0", "0", "0", "0",
                    "0", "0", "0", "0", "0", "0", "0", "0", "0", "0">>

\* meta.json: one that does not load, a good one, one whose start_time is
\* no number, one whose start_time is beyond time_t
MetaFiles ==
    { MetaJson(FALSE, <<>>, 0),
      MetaJson(TRUE, STR_1705920600, 600000),
      MetaJson(TRUE, STR_later, 1500),
      MetaJson(TRUE, STR_1e19, 600000) }

\* an absent file (None) or one of the contents (<<content>>)
Optional(S) == {None} \cup {<<c>> : c \in S}

\* the directory holding the files that are not None
DirOf(f, m, s, j) ==
    [n \in {x \in {FAST_FILE, MEDIUM_FILE, SLOW_FILE, META_FILE} :
               \/ x = FAST_FILE /\ f # None
               \/ x = MEDIUM_FILE /\ m # None
               \/ x = SLOW_FILE /\ s # None
               \/ x = META_FILE /\ j # None}
        |-> CASE n = FAST_FILE   -> f[1]
              [] n = MEDIUM_FILE -> m[1]
              [] n = SLOW_FILE   -> s[1]
              [] n = META_FILE   -> j[1]]

\* a tier file: absent (None) when the device wrote no record and did not
\* create it, else the bytes of its records followed by those of an
\* interrupted record
TierFile(t, recs, created, partial) ==
    IF recs = <<>> /\ ~created THEN None
    ELSE <<BytesOf(t, recs) \o partial>>

\* the ways an interrupted write can end medium_data.bin: not at all, or
\* after three bytes of a record
MediumTails == {<<>>, SubSeq(InterruptedRecord("medium"), 1, 3)}

STR_UNIT_42_RUN_5 ==
    <<"U", "N", "I", "T", "_", "4", "2", "_", "R", "U", "N", "_", "5">>
STR_lab == <<"l", "a", "b">>
STR_unit_9999 == <<"u", "n", "i", "t", "_", "9", "9", "9", "9">>

RunNames == {STR_UNIT_42_RUN_5}

\* the unit_id argument: the default None, or an override
UnitIdArgs == {None, <<STR_unit_9999>>}

\* the health_label argument: the default, or another label
RequestedLabels == {"unknown", "healthy"}

\* one run directory of at most MaxRunRecords records over the three tier
\* files, each file absent, empty or holding records, the medium file
\* possibly ending in an interrupted record; any descriptor or none
Init ==
    /\ IdleDecode
    /\ IdleFolder
    /\ \E name \in RunNames :
       \E a \in 0..MaxRunRecords :
       \E b \in 0..(MaxRunRecords - a) :
       \E c \in 0..(MaxRunRecords - a - b) :
       \E f \in [1..a -> RunFastRecords], m \in [1..b -> RunMediumRecords],
          sl \in [1..c -> RunSlowRecords] :
       \E fc \in {a > 0, TRUE}, mc \in {b > 0, TRUE}, sc \in {c > 0, TRUE} :
       \E p \in (IF mc THEN MediumTails ELSE {<<>>}), j \in Optional(MetaFiles) :
          input_dir = (name :>
              DirOf(TierFile("fast", f, fc, <<>>), TierFile("medium", m, mc, p),
                    TierFile("slow", sl, sc, <<>>), j))
    /\ output_dir = EmptyOutput
    /\ calls = <<>>
    /\ invocations = <<>>
    /\ validated = <<>>
    /\ generated = <<>>

\* one call of convert_run on a run directory of the input, into the
\* output root; at most limit calls
ConvertRun(limit) ==
    /\ Len(calls) < limit
    /\ \E name \in DOMAIN input_dir, u \in UnitIdArgs, h \in RequestedLabels :
          \E r \in {convert_run(name, input_dir[name], output_dir, u, h)} :
              /\ output_dir' = r.out
              /\ calls' = Append(calls,
                     [run_dir         |-> name,
                      unit_id_arg     |-> u,
                      health_label    |-> h,
                      raised          |-> r.raised,
                      unit_id         |-> r.unit_id,
                      run_id          |-> r.run_id,
                      run_output_dir  |-> r.run_output_dir,
                      output_files    |-> r.output_files,
                      session_records |-> r.session_records])
    /\ UNCHANGED <<input_dir, invocations, validated, generated,
                   decodeVars, folderVars>>

ConvertOnce == ConvertRun(1)

Next == ConvertOnce

Spec == Init /\ [][Next]_vars

----------------------------------------------------------------------------
(* SpecBatch: an input root of several run directories, converted one call *)
(* of convert_run at a time, in any order and possibly more than once,     *)
(* into one output root.                                                   *)

STR_RUN_1        == <<"R", "U", "N", "_", "1">>
STR_RUN_001      == <<"R", "U", "N", "_", "0", "0", "1">>
STR_UNIT_2_RUN_1 == <<"U", "N", "I", "T", "_", "2", "_", "R", "U", "N", "_", "1">>

\* run directory names: two spellings of one run number, the same number
\* with a unit, and a name of neither form
BatchNames == {STR_RUN_1, STR_RUN_001, STR_UNIT_2_RUN_1, STR_lab}

\* run directory contents: a fast file of one imu record; a slow file of
\* one temperature record with a descriptor
BatchDirs ==
    { DirOf(<<BytesOf("fast", << <<T1, 0, F1_0>> >>)>>, None, None, None),
      DirOf(None, None, <<BytesOf("slow", << <<T1, 4, F1_0>> >>)>>,
            <<MetaJson(TRUE, STR_1705920600, 600000)>>) }

InitBatch ==
    /\ IdleDecode
    /\ IdleFolder
    /\ \E names \in SUBSET BatchNames :
          /\ Cardinality(names) \in 1..MaxRunDirs
          /\ input_dir \in [names -> BatchDirs]
    /\ output_dir = EmptyOutput
    /\ calls = <<>>
    /\ invocations = <<>>
    /\ validated = <<>>
    /\ generated = <<>>

ConvertSome == ConvertRun(MaxCalls)

NextBatch == ConvertSome

SpecBatch == InitBatch /\ [][NextBatch]_vars

----------------------------------------------------------------------------
(* The session table, convert_all_runs and the convert command *)

\* SessionRecord.to_csv_row: the row of the session table
to_csv_row(record) ==
    [session_id       |-> record.session_id,
     unit_id          |-> record.unit_id,
     sensor_name      |-> record.sensor_name,
     file_name        |-> record.file_name,
     file_format      |-> record.file_format,
     start_time_utc   |-> [isoformat |-> record.start_time_utc, suffix |-> "Z"],
     duration_s       |-> record.duration_s,
     sampling_rate_hz |-> record.sampling_rate_hz,
     units            |-> record.units,
     voltage_supply_v |-> None,
     temperature_c    |-> None,
     humidity_pct     |-> None,
     health_label     |-> record.health_label]

\* pd.DataFrame([s.to_csv_row() for s in sessions])
sessions_df(sessions) == [i \in DOMAIN sessions |-> to_csv_row(sessions[i])]

\* pd.read_csv of the table: a text column whose every value is a run of
\* digits is read as integers, which drops leading zeros; any other text
\* column is read as it was written
read_csv(rows) ==
    LET ids   == \A i \in DOMAIN rows : AllDigits(rows[i].session_id)
        units == \A i \in DOMAIN rows : AllDigits(rows[i].unit_id)
    IN  [i \in DOMAIN rows |->
            [rows[i] EXCEPT
                !.session_id = IF ids THEN strip_zeros(@) ELSE @,
                !.unit_id    = IF units THEN strip_zeros(@) ELSE @]]

\* sessions_df.to_csv(sessions_csv, index=False): the file is replaced
write_sessions_csv(out, rows) == [out EXCEPT !.sessions = <<rows>>]

\* a plain file of the input root is the entry with this one key; any other
\* entry is a directory, its keys the relative paths of the files below it
PLAIN_FILE == "."

is_dir(entry) == PLAIN_FILE \notin DOMAIN entry

\* any((item / f).exists() for f in [the three tier files])
has_data(entry) == \E f \in {FAST_FILE, MEDIUM_FILE, SLOW_FILE} : exists(entry, f)

\* str comparison: by code point, character by character
CharOrder == Digits \o UpperCase \o <<"_">> \o LowerCase

ord(c) == CHOOSE i \in DOMAIN CharOrder : CharOrder[i] = c

RECURSIVE str_lt(_, _)
str_lt(a, b) ==
    IF b = <<>> THEN FALSE
    ELSE IF a = <<>> THEN TRUE
    ELSE IF Head(a) # Head(b) THEN ord(Head(a)) < ord(Head(b))
    ELSE str_lt(Tail(a), Tail(b))

\* a plausible bug: the run directories taken in reverse order
RECURSIVE sorted_reverse(_)
sorted_reverse(names) ==
    IF names = {} THEN <<>>
    ELSE LET least == CHOOSE x \in names : \A y \in names \ {x} : str_lt(x, y)
         IN  sorted_reverse(names \ {least}) \o <<least>>

\* sorted(run_dirs)
RECURSIVE sorted(_)
sorted(names) ==
    IF names = {} THEN <<>>
    ELSE LET least == CHOOSE x \in names : \A y \in names \ {x} : str_lt(x, y)
         IN  <<least>> \o sorted(names \ {least})

\* "Find run directories": the directories holding a tier file
find_run_dirs(root) == {n \in DOMAIN root : is_dir(root[n]) /\ has_data(root[n])}

\* what is kept of one convert_run call
CallOf(name, u, h, r) ==
    [run_dir         |-> name,
     unit_id_arg     |-> u,
     health_label    |-> h,
     raised          |-> r.raised,
     unit_id         |-> r.unit_id,
     run_id          |-> r.run_id,
     run_output_dir  |-> r.run_output_dir,
     output_files    |-> r.output_files,
     session_records |-> r.session_records]

\* one step of convert_all_runs, and the session table it leaves
StepOf(kind, name, out) == [step |-> kind, run_dir |-> name, table |-> out.sessions]

\* a plausible bug: the session table rewritten after every run
after_run_writing_table(acc, name, health_label, r) ==
    CHOOSE next \in
      { [out          |-> out,
         all_sessions |-> acc.all_sessions \o r.session_records,
         calls        |-> Append(acc.calls, CallOf(name, None, health_label, r)),
         steps        |-> Append(acc.steps, StepOf("run", name, out))] :
          out \in {IF acc.all_sessions \o r.session_records # <<>>
                   THEN write_sessions_csv(r.out,
                            sessions_df(acc.all_sessions \o r.session_records))
                   ELSE r.out} } : TRUE

\* the loop's state after one run: its calls, what it has written,
\* all_sessions.extend(sessions) unless the run raised, and the steps so far
after_run(acc, name, health_label, r) ==
    [out          |-> r.out,
     all_sessions |-> acc.all_sessions \o r.session_records,
     calls        |-> Append(acc.calls, CallOf(name, None, health_label, r)),
     steps        |-> Append(acc.steps, StepOf("run", name, r.out))]

\* a plausible bug: the loop ends at the first run that raises
RECURSIVE convert_each_until_error(_, _, _, _)
convert_each_until_error(run_dirs, root, acc, health_label) ==
    IF run_dirs = <<>> THEN acc
    ELSE CHOOSE done \in
           { IF r.raised THEN after_run(acc, Head(run_dirs), health_label, r)
             ELSE convert_each_until_error(
                      Tail(run_dirs), root,
                      after_run(acc, Head(run_dirs), health_label, r),
                      health_label) :
               r \in {convert_run(Head(run_dirs), root[Head(run_dirs)],
                                  acc.out, None, health_label)} } : TRUE

\* "Convert each run": the loop over the sorted run directories; a run that
\* raises adds nothing to all_sessions.  (Each convert_run is bound once,
\* as r, and each state of the loop once, as next.)
RECURSIVE convert_each(_, _, _, _)
convert_each(run_dirs, root, acc, health_label) ==
    IF run_dirs = <<>> THEN acc
    ELSE CHOOSE done \in
           { convert_each(Tail(run_dirs), root, next, health_label) :
               next \in { after_run(acc, Head(run_dirs), health_label, r) :
                            r \in {convert_run(Head(run_dirs), root[Head(run_dirs)],
                                               acc.out, None, health_label)} } } : TRUE

\* "Write combined sessions metadata": only when a record was returned
write_combined(run_dirs, done) ==
    CHOOSE result \in
      { [all_sessions |-> done.all_sessions,
         run_dirs     |-> run_dirs,
         calls        |-> done.calls,
         out          |-> out,
         steps        |-> IF done.all_sessions # <<>>
                          THEN Append(done.steps, StepOf("write", <<>>, out))
                          ELSE done.steps] :
          out \in {IF done.all_sessions # <<>>
                   THEN write_sessions_csv(done.out,
                                           sessions_df(done.all_sessions))
                   ELSE done.out} } : TRUE

\* convert_all_runs(input_dir, output_dir, health_label): the list returned,
\* the run directories in the order converted, the convert_run calls made
\* and the output root it leaves
convert_all_runs(root, out, health_label) ==
    CHOOSE result \in
      { write_combined(run_dirs, done) :
          run_dirs \in {sorted(find_run_dirs(root))},
          done \in {convert_each(sorted(find_run_dirs(root)), root,
                                 [out |-> out, all_sessions |-> <<>>,
                                  calls |-> <<>>, steps |-> <<>>],
                                 health_label)} } : TRUE

\* "Write session metadata for single run": append to the existing table
\* or create it
append_sessions(out, sessions) ==
    IF sessions = <<>> THEN out
    ELSE IF out.sessions # None
    THEN write_sessions_csv(out, read_csv(out.sessions[1]) \o sessions_df(sessions))
    ELSE write_sessions_csv(out, sessions_df(sessions))

\* how the convert command ends after convert_run: the table is updated
\* when it returned
converted(name, unit_id_arg, health_label, r) ==
    [exit     |-> IF r.raised THEN "exception" ELSE "ok",
     calls    |-> <<CallOf(name, unit_id_arg, health_label, r)>>,
     sessions |-> r.session_records,
     out      |-> IF r.raised THEN r.out
                  ELSE append_sessions(r.out, r.session_records)]

\* a plausible bug: the command without typer's exists / file_okay checks
convert_unchecked(name, root, out, unit_id_arg, health_label) ==
    CHOOSE result \in
      { converted(name, unit_id_arg, health_label, r) :
          r \in {convert_run(name,
                             IF name \in DOMAIN root /\ is_dir(root[name])
                             THEN root[name] ELSE <<>>,
                             out, unit_id_arg, health_label)} } : TRUE

\* the convert command: typer refuses a run_dir that does not exist or is
\* no directory; else convert_run, and when it returns, the table is updated
convert(name, root, out, unit_id_arg, health_label) ==
    IF name \notin DOMAIN root \/ ~is_dir(root[name])
    THEN [exit |-> "usage error", calls |-> <<>>, sessions |-> <<>>, out |-> out]
    ELSE CHOOSE result \in
           { converted(name, unit_id_arg, health_label, r) :
               r \in {convert_run(name, root[name], out,
                                  unit_id_arg, health_label)} } : TRUE

----------------------------------------------------------------------------
(* SpecCli: an input root of directories and plain files; the convert and  *)
(* convert-all commands run on it, in any order, into one output root.     *)

STR_RUN_10 == <<"R", "U", "N", "_", "1", "0">>
STR_RUN_2  == <<"R", "U", "N", "_", "2">>
STR_007    == <<"0", "0", "7">>

\* names in the input root: by code point 007 < RUN_10 < RUN_2
CliNames == {STR_RUN_10, STR_RUN_2, STR_007}

\* entries of the input root: a run of one imu record; a run whose
\* descriptor has a start_time beyond time_t; an empty directory; a
\* directory holding only a subdirectory with a tier file; a plain file
CliEntries ==
    { DirOf(<<BytesOf("fast", << <<T1, 0, F1_0>> >>)>>, None, None, None),
      DirOf(<<BytesOf("fast", << <<T0, 1, F0_0>> >>)>>, None, None,
            <<MetaJson(TRUE, STR_1e19, 600000)>>),
      <<>>,
      ("sub/" \o SLOW_FILE) :> BytesOf("slow", << <<T1, 4, F1_0>> >>),
      PLAIN_FILE :> <<0, 1>> }

InitCli ==
    /\ IdleDecode
    /\ IdleFolder
    /\ \E names \in SUBSET CliNames :
          /\ Cardinality(names) \in 1..MaxRunDirs
          /\ input_dir \in [names -> CliEntries]
    /\ output_dir = EmptyOutput
    /\ calls = <<>>
    /\ invocations = <<>>
    /\ validated = <<>>
    /\ generated = <<>>

\* the --health-label option: left out, or a label
LabelOptions == {None, <<"healthy">>}

\* a plausible bug: the option ignored
health_label_default(option) == "unknown"

\* health_label: HealthLabel = typer.Option(HealthLabel.UNKNOWN, ...)
health_label_of(option) == IF option = None THEN "unknown" ELSE option[1]

\* what is kept of one command: what it was given (run directory and
\* --health-label option), how it ended, what it
\* returned, the run directories it converted in order, the convert_run
\* calls it made, the steps of a convert-all with the session table after
\* each, and the session table before and after the command
InvocationOf(kind, name, label, exit, sessions, run_dirs, made, steps, out) ==
    [kind         |-> kind,
     run_dir      |-> name,
     health_label |-> label,
     exit         |-> exit,
     sessions     |-> sessions,
     run_dirs     |-> run_dirs,
     made         |-> made,
     steps        |-> steps,
     before       |-> output_dir.sessions,
     after        |-> out.sessions]

\* shield-converter convert <run_dir> --output <output_dir> -l <label>
\* (the --unit-id option is left to Spec)
CliConvert ==
    /\ Len(invocations) < MaxCalls
    /\ \E name \in CliNames, h \in LabelOptions :
          \E r \in {convert(name, input_dir, output_dir, None,
                             health_label_of(h))} :
              /\ output_dir' = r.out
              /\ calls' = calls \o r.calls
              /\ invocations' = Append(invocations,
                     InvocationOf("convert", name, h, r.exit, r.sessions,
                                  <<>>, r.calls, <<>>, r.out))
    /\ UNCHANGED <<input_dir, validated, generated, decodeVars, folderVars>>

\* shield-converter convert-all <input_dir> --output <output_dir> -l <label>
ConvertAll ==
    /\ Len(invocations) < MaxCalls
    /\ \E h \in LabelOptions :
          \E r \in {convert_all_runs(input_dir, output_dir,
                                      health_label_of(h))} :
              /\ output_dir' = r.out
              /\ calls' = calls \o r.calls
              /\ invocations' = Append(invocations,
                     InvocationOf("convert-all", <<>>, h, "ok", r.all_sessions,
                                  r.run_dirs, r.calls, r.steps, r.out))
    /\ UNCHANGED <<input_dir, validated, generated, decodeVars, folderVars>>

NextCli == CliConvert \/ ConvertAll

SpecCli == InitCli /\ [][NextCli]_vars

----------------------------------------------------------------------------
(* validate_run *)

\* the tier files in the order validate_run checks them, with record sizes
VALIDATED_FILES ==
    << <<FAST_FILE, FAST_RECORD_SIZE>>,
       <<MEDIUM_FILE, MEDIUM_RECORD_SIZE>>,
       <<SLOW_FILE, SLOW_RECORD_SIZE>> >>

\* fpath.stat().st_size
st_size(content) == Len(content)

\* results["files"][fname] for one tier file
file_report(dir, fname, record_size) ==
    IF exists(dir, fname)
    THEN [exists             |-> TRUE,
          size_bytes         |-> st_size(dir[fname]),
          expected_records   |-> st_size(dir[fname]) \div record_size,
          has_partial_record |-> st_size(dir[fname]) % record_size > 0]
    ELSE [exists |-> FALSE]

\* the warning about a file size that is no multiple of the record size
size_warning(fname, file_size, record_size) ==
    <<fname, "File size not evenly divisible by record size",
      file_size, record_size>>

\* a plausible bug: a partial record reported as an error
error_partial_record(results, warning) ==
    [results EXCEPT !.errors = Append(@, warning), !.valid = FALSE]

\* "if remainder > 0: results["warnings"].append(...)"
warn_partial_record(results, warning) ==
    [results EXCEPT !.warnings = Append(@, warning)]

\* "Check for binary files": the loop over the three tier files
RECURSIVE check_files(_, _, _)
check_files(dir, results, todo) ==
    IF todo = <<>> THEN results
    ELSE LET fname       == Head(todo)[1]
             record_size == Head(todo)[2]
             report      == file_report(dir, fname, record_size)
             filed       == [results EXCEPT
                                !.files = DictSet(@, fname, report)]
         IN  check_files(dir,
                 IF report.exists /\ report.has_partial_record
                 THEN warn_partial_record(filed,
                          size_warning(fname, report.size_bytes, record_size))
                 ELSE filed,
                 Tail(todo))

\* a plausible bug: a missing descriptor reported as an error
check_metadata_required(dir, results) ==
    IF exists(dir, META_FILE)
    THEN LET loaded == load_firmware_metadata(dir[META_FILE])
         IN  IF loaded.raised
             THEN [results EXCEPT
                      !.errors = Append(@, <<META_FILE, "Could not parse">>),
                      !.valid = FALSE]
             ELSE [results EXCEPT
                      !.metadata = <<[exists      |-> TRUE,
                                      duration_ms |-> loaded.meta[1].duration_ms]>>]
    ELSE [results EXCEPT
             !.metadata = <<[exists |-> FALSE]>>,
             !.errors = Append(@, <<META_FILE, "not found">>),
             !.valid = FALSE]

\* "Check metadata"
check_metadata(dir, results) ==
    IF exists(dir, META_FILE)
    THEN LET loaded == load_firmware_metadata(dir[META_FILE])
         IN  IF loaded.raised
             THEN [results EXCEPT
                      !.errors = Append(@, <<META_FILE, "Could not parse">>),
                      !.valid = FALSE]
             ELSE [results EXCEPT
                      !.metadata = <<[exists      |-> TRUE,
                                      duration_ms |-> loaded.meta[1].duration_ms]>>]
    ELSE [results EXCEPT
             !.metadata = <<[exists |-> FALSE]>>,
             !.warnings = Append(@, <<META_FILE, "not found">>)]

\* validate_run(run_dir): the results dictionary; files is a dict, metadata
\* None while the key is not set
validate_run(dir) ==
    check_metadata(dir,
        check_files(dir,
            [valid |-> TRUE, errors |-> <<>>, warnings |-> <<>>,
             files |-> <<>>, metadata |-> None],
            VALIDATED_FILES))

----------------------------------------------------------------------------
(* Claims about convert_run, on Spec *)

\* the complete records of a tier file of the run directory, by its length
WholeRecords(dir, fname, size) ==
    IF fname \in DOMAIN dir THEN Len(dir[fname]) \div size ELSE 0

\* some complete 12-byte record of the file carries the sensor id (byte 4)
CarriesId(dir, fname, id) ==
    \E k \in 0..(WholeRecords(dir, fname, 12) - 1) : dir[fname][12 * k + 5] = id

\* the sensors at least one record of the run directory belongs to
SensorsWithRecords(dir) ==
       {n \in {"imu"}         : CarriesId(dir, FAST_FILE, 0)}
    \cup {n \in {"vibration"}   : CarriesId(dir, FAST_FILE, 1)}
    \cup {n \in {"current"}     : WholeRecords(dir, MEDIUM_FILE, 8) >= 1}
    \cup {n \in {"pressure"}    : CarriesId(dir, SLOW_FILE, 3)}
    \cup {n \in {"temperature"} : CarriesId(dir, SLOW_FILE, 4)}

\* the files convert_run call c left in its run output directory
WrittenBy(c) == output_dir.data[c.run_output_dir]

\* C6: a sensor gets an output file, and is a key of the series mapping
\* convert_run returns, if and only if at least one complete record of its
\* own tier file belongs to it (fast and slow: carries its id; medium: any
\* complete record); no written series is empty.
C6_SeriesIffRecords ==
    \A k \in DOMAIN calls :
        LET c    == calls[k]
            with == SensorsWithRecords(input_dir[c.run_dir])
        IN  /\ DOMAIN WrittenBy(c) = {n \o ".csv" : n \in with}
            /\ \A f \in DOMAIN WrittenBy(c) : WrittenBy(c)[f] # <<>>
            /\ ~c.raised => DictKeys(c.output_files) = with

\* a call on a run whose fast file holds an imu record and a record with
\* pressure's id, and whose medium file holds only an interrupted record:
\* imu is the one series
C6_Witness ==
    \E k \in DOMAIN calls :
        LET c   == calls[k]
            dir == input_dir[c.run_dir]
        IN  /\ CarriesId(dir, FAST_FILE, 0)
            /\ CarriesId(dir, FAST_FILE, 3)
            /\ MEDIUM_FILE \in DOMAIN dir
            /\ Len(dir[MEDIUM_FILE]) = 3
            /\ SLOW_FILE \in DOMAIN dir
            /\ ~c.raised
            /\ DictKeys(c.output_files) = {"imu"}
            /\ DOMAIN WrittenBy(c) = {"imu.csv"}

\* the sensor names of a list of session records
SensorNames(rs) == {rs[i].sensor_name : i \in DOMAIN rs}

\* the session records name pairwise distinct sensors, the keys of the
\* returned output_files
RecordsMatchSeries(c) ==
    /\ \A i, j \in DOMAIN c.session_records :
           i # j => c.session_records[i].sensor_name
                        # c.session_records[j].sensor_name
    /\ SensorNames(c.session_records) = DictKeys(c.output_files)

\* C10: every convert_run call, whatever tier files and descriptor the run
\* directory holds, returns one session record per produced series: the
\* records' sensor names are pairwise distinct and are the keys of the
\* returned output_files, the series written.
C10_OneRecordPerSeries ==
    \A k \in DOMAIN calls :
        /\ ~calls[k].raised
        /\ RecordsMatchSeries(calls[k])
        /\ DOMAIN WrittenBy(calls[k])
              = {n \o ".csv" : n \in SensorNames(calls[k].session_records)}

\* what does hold: a call that returns, returns matching records
C10_WhenReturned ==
    \A k \in DOMAIN calls :
        ~calls[k].raised =>
            /\ RecordsMatchSeries(calls[k])
            /\ DOMAIN WrittenBy(calls[k])
                  = {n \o ".csv" : n \in SensorNames(calls[k].session_records)}

\* a call that wrote a series and raised: no session record for it
C10_RaisedAfterWriting ==
    \E k \in DOMAIN calls :
        /\ calls[k].raised
        /\ DOMAIN WrittenBy(calls[k]) # {}

----------------------------------------------------------------------------
(* Claims about output directories, on SpecBatch *)

----------------------------------------------------------------------------
(* Claims about optional inputs of convert_run, on Spec *)

TierFiles == {FAST_FILE, MEDIUM_FILE, SLOW_FILE}

\* the sensors a tier file can give series for
TierSensors(fname) ==
    CASE fname = FAST_FILE   -> {"imu", "vibration"}
      [] fname = MEDIUM_FILE -> {"current"}
      [] fname = SLOW_FILE   -> {"pressure", "temperature"}

\* the series of the tier files present in the run directory
SeriesOfPresentTiers(dir) ==
    UNION {TierSensors(f) \cap SensorsWithRecords(dir) :
              f \in TierFiles \cap DOMAIN dir}

\* the call returned the series of the present tiers, and nothing when no
\* tier file is present
ReturnedPresentTiers(c) ==
    /\ DictKeys(c.output_files) = SeriesOfPresentTiers(input_dir[c.run_dir])
    /\ TierFiles \cap DOMAIN input_dir[c.run_dir] = {}
          => c.output_files = <<>> /\ c.session_records = <<>>

\* C11: whatever subset of the three tier files the run directory holds,
\* convert_run completes without error and returns exactly the series of
\* the tiers present; with none present it returns zero series and zero
\* session records.
C11_TiersOptional ==
    \A k \in DOMAIN calls :
        ~calls[k].raised /\ ReturnedPresentTiers(calls[k])

\* what does hold: a call that returns, returns the series of the tiers
\* present
C11_WhenReturned ==
    \A k \in DOMAIN calls :
        ~calls[k].raised => ReturnedPresentTiers(calls[k])

\* a run directory with no tier file, only a descriptor, whose conversion
\* raised
C11_RaisedWithoutTiers ==
    \E k \in DOMAIN calls :
        /\ TierFiles \cap DOMAIN input_dir[calls[k].run_dir] = {}
        /\ calls[k].raised

\* the directory without one of its files
WithoutFile(dir, fname) == [f \in DOMAIN dir \ {fname} |-> dir[f]]

\* the run directory of the call holds a descriptor that does not load
DescriptorFailsToLoad(c) ==
    /\ META_FILE \in DOMAIN input_dir[c.run_dir]
    /\ load_firmware_metadata(input_dir[c.run_dir][META_FILE]).raised

\* the same call on the same run directory with meta.json removed
WithoutDescriptor(c) ==
    convert_run(c.run_dir, WithoutFile(input_dir[c.run_dir], META_FILE),
                EmptyOutput, c.unit_id_arg, c.health_label)

\* C13: when the descriptor is present but does not load, convert_run
\* completes and gives what it gives for the same run directory without
\* descriptor: the same series, written and returned, as many session
\* records, and the timing defaults (current time, duration_s = 0).
C13_BadDescriptorAsNone ==
    \A k \in DOMAIN calls :
        LET c == calls[k]
        IN  DescriptorFailsToLoad(c) =>
              \A none \in {WithoutDescriptor(c)} :
                  /\ ~c.raised
                  /\ ~none.raised
                  /\ c.output_files = none.output_files
                  /\ WrittenBy(c) = none.out.data[c.run_output_dir]
                  /\ Len(c.session_records) = Len(none.session_records)
                  /\ \A i \in DOMAIN c.session_records :
                        /\ c.session_records[i].duration_s = ZeroS
                        /\ c.session_records[i].start_time_utc = Now
                        /\ c.session_records[i] = none.session_records[i]

\* a run with an imu record and a descriptor that does not load, converted
C13_Witness ==
    \E k \in DOMAIN calls :
        /\ DescriptorFailsToLoad(calls[k])
        /\ ~calls[k].raised
        /\ "imu" \in SensorNames(calls[k].session_records)

----------------------------------------------------------------------------
(* Claims about the commands, on SpecCli *)

\* a directory with none of the three tier files and no descriptor
NoInput(entry) ==
    is_dir(entry) /\ DOMAIN entry \cap (TierFiles \cup {META_FILE}) = {}

\* C12 as stated: the convert command fails with an error when the run
\* directory is missing, and when it holds none of the three tier files and
\* no descriptor.
C12_StructuralErrorsFatal ==
    \A k \in DOMAIN invocations :
        LET v == invocations[k]
        IN  (/\ v.kind = "convert"
             /\ \/ v.run_dir \notin DOMAIN input_dir
                \/ NoInput(input_dir[v.run_dir]))
            => v.exit # "ok"

\* C12: the convert command refuses a missing run directory before any
\* conversion, writing nothing; a run directory that holds none of the
\* three tier files and no descriptor is no error: the command completes
\* with zero series and zero session records and leaves the session table
\* as it was.
C12_MissingRefusedEmptyCompletes ==
    \A k \in DOMAIN invocations :
        LET v == invocations[k]
        IN  v.kind = "convert" =>
              /\ v.run_dir \notin DOMAIN input_dir
                    => /\ v.exit = "usage error"
                       /\ v.made = <<>>
                       /\ v.sessions = <<>>
                       /\ v.after = v.before
              /\ (v.run_dir \in DOMAIN input_dir /\ NoInput(input_dir[v.run_dir]))
                    => /\ v.exit = "ok"
                       /\ Len(v.made) = 1
                       /\ v.made[1].output_files = <<>>
                       /\ v.sessions = <<>>
                       /\ v.after = v.before

\* convert was run on a missing directory and refused, and on an empty
\* directory and completed
C12_Witness ==
    \E i, j \in DOMAIN invocations :
        /\ invocations[i].kind = "convert"
        /\ invocations[i].run_dir \notin DOMAIN input_dir
        /\ invocations[i].exit = "usage error"
        /\ invocations[j].kind = "convert"
        /\ invocations[j].run_dir \in DOMAIN input_dir
        /\ input_dir[invocations[j].run_dir] = <<>>
        /\ invocations[j].exit = "ok"

\* the session records of a list of convert_run calls, in order
RECURSIVE RecordsOfCalls(_)
RecordsOfCalls(made) ==
    IF made = <<>> THEN <<>>
    ELSE Head(made).session_records \o RecordsOfCalls(Tail(made))

\* the rows of a session table (none while the file is absent)
RowsOfTable(table) == IF table = None THEN {} ELSE Range(table[1])

\* C14: in a convert-all over the qualifying run directories, a run whose
\* conversion raises stops nothing: every qualifying run directory is
\* converted once, the returned list is the session records of the runs
\* that did not raise, the session table holds a row for each of them and
\* no row for a run that raised.
C14_BatchIsolation ==
    \A k \in DOMAIN invocations :
        LET v == invocations[k]
        IN  v.kind = "convert-all" =>
              /\ Len(v.made) = Cardinality(find_run_dirs(input_dir))
              /\ {v.made[i].run_dir : i \in DOMAIN v.made} = find_run_dirs(input_dir)
              /\ v.sessions = RecordsOfCalls(v.made)
              /\ \A i \in DOMAIN v.made :
                    IF v.made[i].raised
                    THEN /\ v.made[i].session_records = <<>>
                         /\ \A row \in RowsOfTable(v.after) :
                               ~(/\ row.session_id = v.made[i].run_id
                                 /\ row.unit_id = v.made[i].unit_id)
                    ELSE \A j \in DOMAIN v.made[i].session_records :
                            to_csv_row(v.made[i].session_records[j])
                                \in RowsOfTable(v.after)

\* a convert-all in which a run raised and a later run was converted and
\* has its rows in the table
C14_Witness ==
    \E k \in DOMAIN invocations :
        /\ invocations[k].kind = "convert-all"
        /\ \E i, j \in DOMAIN invocations[k].made :
              /\ i < j
              /\ invocations[k].made[i].raised
              /\ ~invocations[k].made[j].raised
              /\ invocations[k].made[j].session_records # <<>>
              /\ \E row \in RowsOfTable(invocations[k].after) :
                    row.session_id = invocations[k].made[j].run_id

\* the immediate subdirectories of the input root that hold a tier file
Qualifying(root) ==
    {n \in DOMAIN root :
        /\ PLAIN_FILE \notin DOMAIN root[n]
        /\ DOMAIN root[n] \cap TierFiles # {}}

\* a comes before b in lexicographic order of code points
LexLess(a, b) ==
    \E i \in 1..(Len(b)) :
        /\ \A j \in 1..(i - 1) : j <= Len(a) /\ a[j] = b[j]
        /\ \/ i = Len(a) + 1
           \/ i <= Len(a) /\ ord(a[i]) < ord(b[i])

C15_NestedSkipped ==
    \E k \in DOMAIN invocations :
        /\ invocations[k].kind = "convert-all"
        /\ \E n \in DOMAIN input_dir :
              /\ DOMAIN input_dir[n] = {"sub/slow_data.bin"}
              /\ n \notin Range(invocations[k].run_dirs)
        /\ invocations[k].run_dirs # <<>>

----------------------------------------------------------------------------
(* Claims about the unit id of convert_run, on Spec *)

STR_UNIT_9999 == <<"U", "N", "I", "T", "_", "9", "9", "9", "9">>
STR_unit_0042 == <<"u", "n", "i", "t", "_", "0", "0", "4", "2">>
STR_UNIT_0042 == <<"U", "N", "I", "T", "_", "0", "0", "4", "2">>
STR_RUN_005   == <<"R", "U", "N", "_", "0", "0", "5">>

\* the directories under data/ of the output root
OutputDirs == DOMAIN output_dir.data

\* C19: a unit_id given to convert_run replaces the one parsed from the
\* folder name everywhere: every session record returned carries it and
\* the output directory is named with it in upper case; without one the
\* unit id parsed from the folder name is used.
C19_UnitIdOverride ==
    \A k \in DOMAIN calls :
        LET c == calls[k]
        IN  IF c.unit_id_arg = <<STR_unit_9999>>
            THEN /\ \A i \in DOMAIN c.session_records :
                       c.session_records[i].unit_id = STR_unit_9999
                 /\ c.run_output_dir = STR_UNIT_9999 \o <<"_">> \o STR_RUN_005
                 /\ OutputDirs = {c.run_output_dir}
            ELSE /\ c.unit_id_arg = None
                 /\ \A i \in DOMAIN c.session_records :
                       c.session_records[i].unit_id = STR_unit_0042
                 /\ c.run_output_dir = STR_UNIT_0042 \o <<"_">> \o STR_RUN_005
                 /\ OutputDirs = {c.run_output_dir}

\* a call with an override that returned the records of two series
C19_Witness ==
    \E k \in DOMAIN calls :
        /\ calls[k].unit_id_arg = <<STR_unit_9999>>
        /\ ~calls[k].raised
        /\ Len(calls[k].session_records) = 2
        /\ calls[k].session_records[2].unit_id = STR_unit_9999
        /\ STR_UNIT_9999 \o <<"_">> \o STR_RUN_005 \in OutputDirs

\* a call without an override that returned a record
C19_FolderUnitUsed ==
    \E k \in DOMAIN calls :
        /\ calls[k].unit_id_arg = None
        /\ calls[k].session_records # <<>>
        /\ calls[k].session_records[1].unit_id = STR_unit_0042

----------------------------------------------------------------------------
(* Claims about the tiers of convert_run, on Spec *)

\* the 32-bit field at byte offset off of a record, as <<high, low>>
Field32(rec, off) ==
    <<rec[off + 3] + 256 * rec[off + 4], rec[off + 1] + 256 * rec[off + 2]>>

\* the numbers 0..n-1 of the complete 12-byte records of a tier file that
\* carry the sensor id, in file order
RecordsCarrying(dir, fname, id) ==
    SelectSeq([k \in 1..WholeRecords(dir, fname, 12) |-> k - 1],
              LAMBDA k : dir[fname][12 * k + 5] = id)

\* the (timestamp_ms, value) rows of those records
OwnRows(dir, fname, id) ==
    [i \in DOMAIN RecordsCarrying(dir, fname, id) |->
        LET rec == SubSeq(dir[fname], 12 * RecordsCarrying(dir, fname, id)[i] + 1,
                          12 * RecordsCarrying(dir, fname, id)[i] + 12)
        IN  <<Field32(rec, 0), Field32(rec, 8)>>]

\* the rows of the complete 8-byte records of the medium file
MediumRows(dir) ==
    [k \in 1..WholeRecords(dir, MEDIUM_FILE, 8) |->
        LET rec == SubSeq(dir[MEDIUM_FILE], 8 * k - 7, 8 * k)
        IN  <<Field32(rec, 0), Field32(rec, 4)>>]

\* sensor name, its tier file, its id
TierOfSensor ==
    { <<"imu", FAST_FILE, 0>>, <<"vibration", FAST_FILE, 1>>,
      <<"pressure", SLOW_FILE, 3>>, <<"temperature", SLOW_FILE, 4>> }

\* C27: in convert_run a tier file contributes to its own sensors only:
\* the fast file to imu and vibration (ids 0, 1), the medium file to
\* current, the slow file to pressure and temperature (ids 3, 4).  A record
\* of the fast or slow file that carries another tier's id is dropped, so
\* no series holds rows of another tier's file, and the keys produced are
\* among the five canonical names.
C27_CrossTierIsolation ==
    \A k \in DOMAIN calls :
        LET c   == calls[k]
            dir == input_dir[c.run_dir]
        IN  /\ DOMAIN WrittenBy(c)
                  \subseteq {"imu.csv", "vibration.csv", "current.csv",
                             "pressure.csv", "temperature.csv"}
            /\ DictKeys(c.output_files)
                  \subseteq {"imu", "vibration", "current", "pressure", "temperature"}
            /\ \A s \in TierOfSensor :
                  (s[1] \o ".csv") \in DOMAIN WrittenBy(c)
                     => WrittenBy(c)[s[1] \o ".csv"] = OwnRows(dir, s[2], s[3])
            /\ "current.csv" \in DOMAIN WrittenBy(c)
                  => WrittenBy(c)["current.csv"] = MediumRows(dir)

\* a run whose fast file holds an imu record and a record with pressure's
\* id and whose slow file holds a pressure record: pressure.csv has the
\* one row of the slow file
C27_Witness ==
    \E k \in DOMAIN calls :
        LET c   == calls[k]
            dir == input_dir[c.run_dir]
        IN  /\ CarriesId(dir, FAST_FILE, 0)
            /\ CarriesId(dir, FAST_FILE, 3)
            /\ CarriesId(dir, SLOW_FILE, 3)
            /\ DOMAIN WrittenBy(c) = {"imu.csv", "pressure.csv"}
            /\ WrittenBy(c)["pressure.csv"] = << <<T0, F1_5>> >>
            /\ OwnRows(dir, FAST_FILE, 3) = << <<T0, F0_5>> >>

\* a run whose slow file holds only a record with imu's id: no series
C27_ForeignIdDropped ==
    \E k \in DOMAIN calls :
        LET c   == calls[k]
            dir == input_dir[c.run_dir]
        IN  /\ DOMAIN dir = {SLOW_FILE}
            /\ CarriesId(dir, SLOW_FILE, 0)
            /\ ~CarriesId(dir, SLOW_FILE, 3)
            /\ ~CarriesId(dir, SLOW_FILE, 4)
            /\ DOMAIN WrittenBy(c) = {}

----------------------------------------------------------------------------
(* Claims about the session table, on SpecCli *)

\* the rows of sessions.csv in file order (none while the file is absent)
RowsInOrder(table) == IF table = None THEN <<>> ELSE table[1]

\* seq begins with prefix
StartsWith(seq, prefix) ==
    /\ Len(prefix) <= Len(seq)
    /\ SubSeq(seq, 1, Len(prefix)) = prefix

\* C18: the session table is append-only: whatever the sequence of convert
\* and convert-all commands on one output root, the rows an earlier command
\* wrote are still there after a later one, which only adds its own rows
\* after them.
C18_AppendOnly ==
    \A k \in DOMAIN invocations :
        LET v == invocations[k]
        IN  RowsInOrder(v.after)
              = RowsInOrder(v.before) \o sessions_df(v.sessions)

\* a convert-all after which a row of the table it found is gone
C18_RowLost ==
    \E k \in DOMAIN invocations :
        LET v == invocations[k]
        IN  /\ v.kind = "convert-all"
            /\ \E row \in RowsOfTable(v.before) : row \notin RowsOfTable(v.after)

\* a convert that rewrote a row it found: the session id 007 read back as 7
C18_RowRewritten ==
    \E k \in DOMAIN invocations :
        LET v == invocations[k]
        IN  /\ v.kind = "convert"
            /\ v.exit = "ok"
            /\ v.sessions # <<>>
            /\ ~StartsWith(RowsInOrder(v.after), RowsInOrder(v.before))

\* the health labels carried by a list of session records
LabelsOf(session_records) ==
    {session_records[i].health_label : i \in DOMAIN session_records}

\* C20: the health label is uniform per command: every session record
\* returned by the convert_run or convert_all_runs call of one command
\* carries the requested label, and "unknown" when none was requested.
C20_UniformLabel ==
    \A k \in DOMAIN invocations :
        LET v == invocations[k]
            expected == IF v.health_label = None THEN "unknown" ELSE "healthy"
        IN  /\ v.health_label \in {None, <<"healthy">>}
            /\ LabelsOf(v.sessions) \subseteq {expected}
            /\ \A i \in DOMAIN v.made :
                  LabelsOf(v.made[i].session_records) \subseteq {expected}

\* a convert-all asked for healthy that returned the records of two runs,
\* after a command without the option that returned a record
C20_Witness ==
    /\ Len(invocations) = 2
    /\ invocations[1].health_label = None
    /\ LabelsOf(invocations[1].sessions) = {"unknown"}
    /\ invocations[2].kind = "convert-all"
    /\ invocations[2].health_label = <<"healthy">>
    /\ Len(invocations[2].sessions) = 2
    /\ LabelsOf(invocations[2].sessions) = {"healthy"}

\* C26: a convert_all_runs call writes the combined session table at most
\* once, after every run directory has been processed, whether its
\* conversion returned or raised; it does not write it when no run gave a
\* session record; and no per-run step writes to it.
C26_TableWrittenOnceAtEnd ==
    \A k \in DOMAIN invocations :
        LET v == invocations[k]
            n == Len(v.run_dirs)
        IN  v.kind = "convert-all" =>
              /\ Len(v.steps) = n + (IF v.sessions # <<>> THEN 1 ELSE 0)
              /\ \A i \in 1..n :
                    /\ v.steps[i].step = "run"
                    /\ v.steps[i].run_dir = v.run_dirs[i]
                    /\ v.steps[i].table = v.before
              /\ v.sessions # <<>>
                    => /\ v.steps[n + 1].step = "write"
                       /\ v.steps[n + 1].table = <<sessions_df(v.sessions)>>
                       /\ v.after = v.steps[n + 1].table
              /\ v.sessions = <<>> => v.after = v.before

\* a convert-all over two run directories, the second of which raised: the
\* table, absent before, was still absent after both and written then
C26_Witness ==
    \E k \in DOMAIN invocations :
        LET v == invocations[k]
        IN  /\ v.kind = "convert-all"
            /\ v.before = None
            /\ Len(v.run_dirs) = 2
            /\ v.made[1].session_records # <<>>
            /\ v.made[2].raised
            /\ Len(v.steps) = 3
            /\ v.steps[2].table = None
            /\ v.after # None

\* a convert-all whose only run raised: no session table
C26_NotWritten ==
    \E k \in DOMAIN invocations :
        LET v == invocations[k]
        IN  /\ v.kind = "convert-all"
            /\ v.run_dirs # <<>>
            /\ v.sessions = <<>>
            /\ Len(v.steps) = Len(v.run_dirs)
            /\ v.after = None

----------------------------------------------------------------------------
(* SpecValidate: one run directory, each tier file absent or holding some  *)
(* records and possibly part of one more; validate_run is called on it.    *)

\* the bytes of an interrupted record left at the end of a tier file:
\* none, one byte, all but one byte
PartialLengths(t) == {0, 1, SizeOf(t) - 1}

\* the contents of a tier file: up to MaxRecords records, then a part of one
ValidatedFiles(t) ==
    {BytesOf(t, [i \in 1..n |-> IF t = "medium" THEN <<T1, F1_0>>
                                               ELSE <<T1, 0, F1_0>>])
        \o SubSeq(InterruptedRecord(t), 1, part) :
        n \in 0..MaxRecords, part \in PartialLengths(t)}

\* an output root a conversion has written to before: one series of one
\* run and its row in the session table
ConvertedBefore ==
    CHOOSE out \in
      { append_sessions(r.out, r.session_records) :
          r \in {convert_run(STR_UNIT_42_RUN_5,
                             DirOf(<<BytesOf("fast", << <<T1, 0, F1_0>> >>)>>,
                                   None, None, None),
                             EmptyOutput, None, "unknown")} } : TRUE

\* a plausible bug: the descriptor opened for writing, which empties it
open_for_writing(dir, fname) == WriteFile(dir, fname, <<>>)

\* open(filepath, "r"): the file and the directory stay as they are
open_for_reading(dir, fname) == dir

\* the run directory after validate_run: exists() and stat() on the tier
\* files, exists() and open(.., "r") on the descriptor
run_dir_after_validate(dir) ==
    IF exists(dir, META_FILE) THEN open_for_reading(dir, META_FILE) ELSE dir

InitValidate ==
    /\ IdleDecode
    /\ IdleFolder
    /\ \E name \in RunNames :
       \E f \in Optional(ValidatedFiles("fast")),
          m \in Optional(ValidatedFiles("medium")),
          sl \in Optional(ValidatedFiles("slow")),
          j \in Optional(MetaFiles) :
          input_dir = (name :> DirOf(f, m, sl, j))
    /\ output_dir \in {EmptyOutput, ConvertedBefore}
    /\ calls = <<>>
    /\ invocations = <<>>
    /\ validated = <<>>
    /\ generated = <<>>

\* results = validate_run(run_dir): the dictionary returned, and what the
\* call leaves of the run directory; it is given no output location
ValidateRun ==
    /\ validated = <<>>
    /\ \E name \in DOMAIN input_dir :
          /\ validated' = <<validate_run(input_dir[name])>>
          /\ input_dir' = [input_dir EXCEPT ![name] = run_dir_after_validate(@)]
    /\ UNCHANGED <<output_dir, calls, invocations, generated,
                   decodeVars, folderVars>>

NextValidate == ValidateRun

SpecValidate == InitValidate /\ [][NextValidate]_vars

----------------------------------------------------------------------------
(* Claims about validate_run, on SpecValidate *)

\* the run directory validated
ValidatedDir == input_dir[CHOOSE name \in DOMAIN input_dir : TRUE]

\* the record size of a tier file, in bytes
RecordSizeOf(fname) == IF fname = MEDIUM_FILE THEN 8 ELSE 12

\* the warnings (or errors) about one file
About(messages, fname) == {i \in DOMAIN messages : messages[i][1] = fname}

\* the descriptor is present and does not parse
DescriptorUnparseable(dir) ==
    META_FILE \in DOMAIN dir /\ ~dir[META_FILE].valid

\* C16: for every tier file present validate_run reports expected_records
\* = file size div record size and has_partial_record = (file size mod
\* record size # 0); the file gets a warning exactly when the remainder is
\* not zero; and a remainder alone adds no error and leaves valid true.
C16_SizeReport ==
    validated # <<>> =>
        /\ \A f \in TierFiles \cap DOMAIN ValidatedDir :
              LET size == Len(ValidatedDir[f])
                  info == DictGet(validated[1].files, f)
              IN  /\ info.exists
                  /\ info.size_bytes = size
                  /\ info.expected_records = size \div RecordSizeOf(f)
                  /\ info.has_partial_record = (size % RecordSizeOf(f) # 0)
                  /\ Cardinality(About(validated[1].warnings, f))
                        = IF size % RecordSizeOf(f) # 0 THEN 1 ELSE 0
                  /\ About(validated[1].errors, f) = {}
        /\ ~DescriptorUnparseable(ValidatedDir)
              => validated[1].errors = <<>> /\ validated[1].valid

\* a run whose fast file ends in a partial record and whose descriptor
\* loads: one warning, about that file, and valid
C16_Witness ==
    /\ validated # <<>>
    /\ FAST_FILE \in DOMAIN ValidatedDir
    /\ Len(ValidatedDir[FAST_FILE]) = 13
    /\ META_FILE \in DOMAIN ValidatedDir
    /\ ValidatedDir[META_FILE].valid
    /\ Len(validated[1].warnings) = 1
    /\ validated[1].warnings[1][1] = FAST_FILE
    /\ DictGet(validated[1].files, FAST_FILE).expected_records = 1
    /\ validated[1].valid

\* C17: valid is false exactly when a descriptor is present and does not
\* parse, and then there is exactly one error; a missing descriptor gives
\* one warning about it and no error; an empty directory gives three files
\* not found, no error, exactly one warning and valid.
C17_VerdictByDescriptor ==
    validated # <<>> =>
        /\ validated[1].valid = ~DescriptorUnparseable(ValidatedDir)
        /\ Len(validated[1].errors)
              = IF DescriptorUnparseable(ValidatedDir) THEN 1 ELSE 0
        /\ Cardinality(About(validated[1].warnings, META_FILE))
              = IF META_FILE \in DOMAIN ValidatedDir THEN 0 ELSE 1
        /\ DOMAIN ValidatedDir = {}
              => /\ \A f \in TierFiles :
                       ~DictGet(validated[1].files, f).exists
                 /\ validated[1].errors = <<>>
                 /\ Len(validated[1].warnings) = 1
                 /\ validated[1].valid

\* the empty directory, validated
C17_Witness ==
    /\ validated # <<>>
    /\ DOMAIN ValidatedDir = {}
    /\ validated[1].valid
    /\ Len(validated[1].warnings) = 1

\* a run with whole tier files and a descriptor that does not parse: invalid
C17_InvalidByDescriptor ==
    /\ validated # <<>>
    /\ DescriptorUnparseable(ValidatedDir)
    /\ validated[1].warnings = <<>>
    /\ ~validated[1].valid

----------------------------------------------------------------------------
(* SpecSessions: generate_session_metadata called on its own, with any     *)
(* descriptor or none and any output_files.                                *)

MaxSeries == 2         \* items of output_files in SpecSessions

STR_253402300800 == <<"2", "5", "3", "4", "0", "2", "3", "0", "0", "8", "0", "0">>
STR_67768036191676800 ==
    <<"6", "7", "7", "6", "8", "0", "3", "6", "1", "9", "1", "6", "7", "6", "8", "0", "0">>
STR_1_0 == <<"1", "_", "0">>

\* start_time strings: a Unix second; no number; empty; a number written
\* with "_"; the last second of year 9999 and the first of year 10000;
\* the last second gmtime can convert and the first it cannot; the last
\* second of time_t; beyond time_t
StartTimes ==
    { STR_1705920600, STR_later, <<>>, STR_1_0,
      DATETIME_MAX_S, STR_253402300800,
      GMTIME_MAX_S, STR_67768036191676800,
      TIME_T_MAX_S, STR_1e19 }

\* statistics.duration_ms
Durations == {0, 1500, 600000}

\* firmware_meta: None or a loaded descriptor
FirmwareMetas ==
    Optional({[start_time |-> st, duration_ms |-> ms] :
                 st \in StartTimes, ms \in Durations})

\* keys of output_files: the five canonical names and one that is not in
\* SENSOR_NAME_TO_INFO
OutputNames == {"imu", "vibration", "current", "pressure", "temperature", "gyro"}

\* output_files: up to MaxSeries items with distinct keys, in any order
OutputFiles ==
    UNION { { [i \in 1..n |-> <<f[i], <<"data", STR_UNIT_0042 \o <<"_">> \o STR_RUN_005,
                                        f[i] \o ".csv">> >>] :
                f \in {g \in [1..n -> OutputNames] :
                          \A i, j \in 1..n : i # j => g[i] # g[j]} } :
            n \in 0..MaxSeries }

InitSessions ==
    /\ IdleDecode
    /\ IdleFolder
    /\ input_dir = <<>>
    /\ output_dir = EmptyOutput
    /\ calls = <<>>
    /\ invocations = <<>>
    /\ validated = <<>>
    /\ \E fm \in FirmwareMetas, files \in OutputFiles, h \in RequestedLabels :
          generated = [firmware_meta |-> fm,
                       unit_id       |-> STR_unit_0042,
                       run_id        |-> STR_RUN_005,
                       output_files  |-> files,
                       health_label  |-> h,
                       returned      |-> None]

\* records = generate_session_metadata(firmware_meta, unit_id, run_id,
\*                                      output_files, health_label)
GenerateSessionMetadata ==
    /\ generated.returned = None
    /\ \E r \in {generate_session_metadata(generated.firmware_meta,
                       generated.unit_id, generated.run_id,
                       generated.output_files, generated.health_label)} :
          generated' = [generated EXCEPT !.returned = <<r>>]
    /\ UNCHANGED <<input_dir, output_dir, calls, invocations, validated,
                   decodeVars, folderVars>>

NextSessions == GenerateSessionMetadata

SpecSessions == InitSessions /\ [][NextSessions]_vars

----------------------------------------------------------------------------
(* Claims about generate_session_metadata, on SpecSessions *)

\* the call has returned or raised
Generated == generated.returned # None

\* the records returned (none when it raised)
GeneratedRecords == generated.returned[1].records

\* start_time strings that int() rejects
NotNumbers == {STR_later, <<>>}

\* start_time strings that are numbers but no second of the years 1..9999
NotDates ==
    {STR_253402300800, GMTIME_MAX_S, STR_67768036191676800, TIME_T_MAX_S, STR_1e19}

\* the records carry the current time and the descriptor's duration
DegradedToNow ==
    /\ ~generated.returned[1].raised
    /\ Len(GeneratedRecords) = Len(generated.output_files)
    /\ \A i \in DOMAIN GeneratedRecords :
          /\ GeneratedRecords[i].start_time_utc = Now
          /\ GeneratedRecords[i].duration_s
                = [num |-> generated.firmware_meta[1].duration_ms, den |-> 1000]

\* C21: for a descriptor whose start_time is no Unix second (no number,
\* empty, or a number that is no date) generate_session_metadata does not
\* raise, uses the current time as start_time_utc and still takes
\* duration_s from the descriptor.
C21_BadTimestampDegrades ==
    (/\ Generated
     /\ generated.firmware_meta # None
     /\ generated.firmware_meta[1].start_time \in NotNumbers \cup NotDates)
        => DegradedToNow

\* where it holds: the strings int() rejects, and the numbers for which
\* fromtimestamp raises ValueError
C21_WhenValueError ==
    (/\ Generated
     /\ generated.firmware_meta # None
     /\ generated.firmware_meta[1].start_time
           \in NotNumbers \cup {STR_253402300800, GMTIME_MAX_S})
        => DegradedToNow

\* the call raised on the first second gmtime cannot convert, with a
\* series to describe
C21_Raised ==
    /\ Generated
    /\ generated.firmware_meta # None
    /\ generated.firmware_meta[1].start_time = STR_67768036191676800
    /\ generated.output_files # <<>>
    /\ generated.returned[1].raised

\* the start_time strings that are the second n of a year up to 9999,
\* with that n in decimal digits
Dates ==
    { <<STR_1705920600, STR_1705920600>>,
      <<STR_1_0, <<"1", "0">> >>,
      <<DATETIME_MAX_S, DATETIME_MAX_S>> }

\* C22: the session records of one run share one start_time_utc and one
\* duration_s.  With a loaded descriptor duration_s is its duration_ms /
\* 1000 and start_time_utc is its start_time read as Unix seconds, UTC;
\* without a descriptor duration_s is 0 and start_time_utc the current time.
C22_TimingDerivation ==
    Generated =>
        /\ \A i, j \in DOMAIN GeneratedRecords :
              /\ GeneratedRecords[i].start_time_utc = GeneratedRecords[j].start_time_utc
              /\ GeneratedRecords[i].duration_s = GeneratedRecords[j].duration_s
        /\ \A i \in DOMAIN GeneratedRecords :
              IF generated.firmware_meta = None
              THEN /\ GeneratedRecords[i].duration_s = [num |-> 0, den |-> 1]
                   /\ GeneratedRecords[i].start_time_utc
                         = [clock |-> TRUE, seconds |-> <<>>]
              ELSE /\ GeneratedRecords[i].duration_s
                         = [num |-> generated.firmware_meta[1].duration_ms,
                            den |-> 1000]
                   /\ \A d \in Dates :
                         generated.firmware_meta[1].start_time = d[1]
                            => GeneratedRecords[i].start_time_utc
                                 = [clock |-> FALSE, seconds |-> d[2]]
        /\ (generated.firmware_meta = None
               \/ \E d \in Dates : generated.firmware_meta[1].start_time = d[1])
              => /\ ~generated.returned[1].raised
                 /\ Len(GeneratedRecords) = Len(generated.output_files)

\* two records of a run whose descriptor says second 1705920600, 1.5 s
C22_Witness ==
    /\ Generated
    /\ generated.firmware_meta
          = <<[start_time |-> STR_1705920600, duration_ms |-> 1500]>>
    /\ Len(GeneratedRecords) = 2
    /\ GeneratedRecords[2].start_time_utc = At(STR_1705920600)
    /\ GeneratedRecords[2].duration_s = [num |-> 1500, den |-> 1000]

\* two records of a run without descriptor: the current time, 0 s
C22_NoDescriptor ==
    /\ Generated
    /\ generated.firmware_meta = None
    /\ Len(GeneratedRecords) = 2
    /\ GeneratedRecords[1].start_time_utc = Now
    /\ GeneratedRecords[1].duration_s = ZeroS

\* the canonical sensor table: name, sampling rate in Hz, unit
CanonicalTable ==
    { <<"imu", 1000, "m/s^2">>, <<"vibration", 1000, "binary">>,
      <<"current", 200, "A">>, <<"pressure", 50, "kPa">>,
      <<"temperature", 50, "C">> }

\* C23: each session record has the sampling_rate_hz and units of the
\* canonical sensor table for its sensor_name; a name that is not in the
\* table is not skipped: it gets a record with sampling_rate_hz = 0 and
\* units = "unknown".
C23_TableLookup ==
    (Generated /\ ~generated.returned[1].raised) =>
        /\ Len(GeneratedRecords) = Len(generated.output_files)
        /\ \A i \in DOMAIN GeneratedRecords :
              LET rec == GeneratedRecords[i]
              IN  /\ rec.sensor_name = generated.output_files[i][1]
                  /\ \A row \in CanonicalTable :
                        rec.sensor_name = row[1]
                           => /\ rec.sampling_rate_hz = row[2]
                              /\ rec.units = row[3]
                  /\ rec.sensor_name \notin {row[1] : row \in CanonicalTable}
                        => /\ rec.sampling_rate_hz = 0
                           /\ rec.units = "unknown"

\* a call on gyro and pressure: two records, gyro's with 0 and unknown
C23_Witness ==
    /\ Generated
    /\ Len(generated.output_files) = 2
    /\ generated.output_files[1][1] = "gyro"
    /\ generated.output_files[2][1] = "pressure"
    /\ Len(GeneratedRecords) = 2
    /\ GeneratedRecords[1].sampling_rate_hz = 0
    /\ GeneratedRecords[1].units = "unknown"
    /\ GeneratedRecords[2].sampling_rate_hz = 50
    /\ GeneratedRecords[2].units = "kPa"

----------------------------------------------------------------------------
(* Claims about the padding bytes, on SpecDecode *)

\* other contents of the three padding bytes of a record
OtherPaddings == { <<0, 0, 0>>, <<255, 254, 1>> }

\* the buffer b with bytes 5..7 of every 12-byte record replaced by pad
\* (the bytes of an interrupted last record included)
Repadded(b, pad) ==
    [i \in DOMAIN b |->
        IF (i - 1) % 12 \in {5, 6, 7} THEN pad[((i - 1) % 12) - 4] ELSE b[i]]

\* C24: for the fast and slow tiers, buffers that differ only in the three
\* padding bytes of their records (bytes 5..7 of each 12-byte record)
\* decode to the same records and so to the same sensor series.
C24_PaddingIgnored ==
    (Parsed /\ tier \in {"fast", "slow"}) =>
        \A pad \in OtherPaddings :
            \A again \in {ParseOf(tier, Repadded(data, pad))} :
                /\ again = records
                /\ dpc = "split"
                      => split_by_sensor(again, SensorIdsOf(tier)) = sensor_dfs

\* a file of two records with padding 255 1 128, decoded and split
C24_Witness ==
    /\ dpc = "split"
    /\ tier \in {"fast", "slow"}
    /\ Len(data) = 24
    /\ SubSeq(data, 6, 8) = <<255, 1, 128>>
    /\ SubSeq(data, 18, 20) = <<255, 1, 128>>
    /\ Repadded(data, <<0, 0, 0>>) # data
    /\ Len(records) = 2

----------------------------------------------------------------------------
(* Claims about what validate_run writes, on SpecValidate *)

\* C25: validate_run creates, modifies and deletes no file or directory,
\* in the run directory or in an output location, the session table
\* included, whichever tier files are present, absent or truncated and
\* whether the descriptor is present, absent or unparseable.
C25_ValidationReadOnly ==
    [][input_dir' = input_dir /\ output_dir' = output_dir]_vars

\* validate_run has returned on a run with a truncated fast file and a
\* descriptor that does not parse, next to an output root with a session
\* table
C25_Witness ==
    /\ validated # <<>>
    /\ ~validated[1].valid
    /\ FAST_FILE \in DOMAIN ValidatedDir
    /\ Len(ValidatedDir[FAST_FILE]) = 13
    /\ DescriptorUnparseable(ValidatedDir)
    /\ output_dir.sessions # None
    /\ output_dir = ConvertedBefore

============================================================================
